---- MODULE Spec2Model ----
(***************************************************************************)
(* A model of verilock's verification pipeline:                            *)
(*   - cfsm/env.rs       Environment (extend, update, satisfiable) and the *)
(*                       encoding of BoolExpression into solver formulas   *)
(*   - cfsm/synthesis.rs synthesize / start_synthesizing_fsm: the BFS over *)
(*                       global configurations of a group of CFSMs         *)
(*   - analysis.rs       analyze: the driver over the dependency forest    *)
(* Specifications: Spec and FairSpec (the synthesizer), SpecEnc (the solver *)
(* encoding as a pure function), SpecEnv (extend and update), SpecAnalyze  *)
(* (the driver), SpecSubst (channel substitution and the synthesis of the  *)
(* substituted group), SpecSolver (satisfiable on the solver's assertion   *)
(* stack), SpecTree (analyze_dependency_tree with the memo cfsm_map).      *)
(***************************************************************************)
EXTENDS Integers, Sequences, FiniteSets, TLC

VARIABLES
    \* ---- synthesize (cfsm/synthesis.rs) ----
    group,          \* the Group: a set of local edges, each owned by an instance
    order,          \* iteration order of the local_configurations HashMap
    unsolvable,     \* constraints on which the solver answers "unknown"
    synthesis_queue,
    visited_global_configs,
    used_edges,
    fsm,            \* edges of the synthesized FSM, in insertion order
    initial_node,   \* the local `initial_node` of start_synthesizing_fsm
    pc,             \* position in synthesize: "idle", "loop", "done", "capped"
    result,         \* what synthesize returns
    last,           \* the last dequeued configuration and what was derived there
    dequeued,       \* the global configurations popped from synthesis_queue, in order
    \* ---- encode_bool_expression (cfsm/env.rs) ----
    encIn,          \* an Environment handed to Environment::satisfiable
    encOut,         \* the verdict of the solver on its encoding
    encOps,         \* the extend/update calls that led to encIn, in order
    encHist,        \* per call of encOps, the environment it was applied to and its verdict
    solverStack,    \* the solver's assertion stack: one set of formulas per scope
    constraints,    \* the constraints of the last UnsolvableConstraints error
    \* ---- analyze (analysis.rs) ----
    forest,         \* dependency_forest: per tree, the synthesize outcome of each task
    extraction,     \* result of extract_protocol: "ok" or "err"
    apc,            \* position in analyze: "idle", "extract", "trees", "end", "done"
    nextTree,       \* index of the next tree of the for loop
    error_detected,
    reported,       \* sequence of reported diagnostics
    analyzed,       \* indexes of the trees handed to analyze_dependency_tree
    verifiedPrinted, \* number of times "verified" was printed
    \* ---- instantiate / channel_substitutions (analysis.rs) ----
    ports,          \* info.ports of the instantiated module: the port ids, in order
    connections,    \* the Connects in scope, in order
    subst,          \* the map channel_substitutions returned
    \* ---- analyze_dependency_tree / instantiate (analysis.rs) ----
    dependency_tree,   \* the DependencyTree: <<module_name, children>>
    module_instances,  \* the ModuleInstances of the project, in order
    task_queue,        \* the TaskQueue of analyze_dependency_tree
    cfsm_map,          \* type_name -> CFSM
    instantiations,    \* the calls of instantiate so far, in order
    synthesized,       \* per finished task, what synthesize returned
    tree_result        \* "running", or what analyze_dependency_tree returned

vars == <<group, order, unsolvable, synthesis_queue, visited_global_configs,
          used_edges, fsm, initial_node, pc, result, last, dequeued,
          encIn, encOut, encOps, encHist, solverStack, constraints,
          forest, extraction,
          apc, nextTree, error_detected, reported, analyzed, verifiedPrinted,
          ports, connections, subst,
          dependency_tree, module_instances, task_queue, cfsm_map, instantiations,
          synthesized, tree_result>>

synthVars == <<group, order, unsolvable, synthesis_queue, visited_global_configs,
               used_edges, fsm, initial_node, pc, result, last, dequeued>>
encVars == <<encIn, encOut, encOps, encHist, solverStack, constraints>>
analyzeVars == <<forest, extraction, apc, nextTree, error_detected, reported,
                 analyzed, verifiedPrinted>>
substVars == <<ports, connections, subst>>
treeVars == <<dependency_tree, module_instances, task_queue, cfsm_map, instantiations,
              synthesized, tree_result>>

(***************************************************************************)
(* Bounds of the model.                                                    *)
(***************************************************************************)
MaxEdges == 3       \* edges of a group, all instances together
MaxEnvSize == 2     \* configurations with a larger environment are not expanded
MaxInt == 2         \* the solver searches integer values -1..MaxInt
MaxEncEnv == 1      \* constraints of an environment given to the encoding check
MaxOps == 2         \* extend/update calls applied in a row to an environment
MaxTrees == 3       \* trees of a dependency forest
MaxTasks == 2       \* non-leaf modules (tasks) of a dependency tree
MaxPorts == 2       \* formal ports of the instantiated module
MaxConnects == 2    \* Connects in the scope of the instantiated module
MaxDepthEdges == 4  \* local edges of a group of SpecDepth

(***************************************************************************)
(* BoolExpression and Primary (sv_info), as tagged tuples.                 *)
(*   Primary:        <<"var", name, ghost>> | <<"int", i>> | <<"unk">>     *)
(*   BoolExpression: <<"true">> | <<"false">> | <<"unknown">>              *)
(*                   | <<"bin", l, op, r>> | <<"not", e>>                  *)
(*                   | <<"and", e1, e2>> | <<"or", e1, e2>>                *)
(* ghost = 0 is the program variable; ghost > 0 is a renamed old binding.  *)
(***************************************************************************)
Var(name) == <<"var", name, 0>>
IntLit(i) == <<"int", i>>
UnknownPrimary == <<"unk">>
True_ == <<"true">>
False_ == <<"false">>
Unknown == <<"unknown">>
Binary(l, op, r) == <<"bin", l, op, r>>
Not(e) == <<"not", e>>
And(l, r) == <<"and", l, r>>
Or(l, r) == <<"or", l, r>>

\* The program variable the guards and updates of the model speak about.
X == Var("x")

\* The subsets of S with at most k elements.
RECURSIVE SubsetsUpTo(_, _)
SubsetsUpTo(S, k) ==
    IF k = 0 THEN {{}}
    ELSE LET P == SubsetsUpTo(S, k - 1)
         IN P \cup {p \cup {e} : p \in P, e \in S}

SolverDomain == (0 - 1)..MaxInt

\* The value of a solver integer term under an assignment of its constants.
TermValue(t, asg) == IF t[1] = "int" THEN t[2] ELSE asg[t]

\* BinRel applied to two integers.
Rel(op, a, b) ==
    CASE op = "eq" -> a = b
      [] op = "neq" -> a # b
      [] op = "gt" -> a > b
      [] op = "lt" -> a < b
      [] op = "ge" -> a >= b
      [] op = "le" -> a <= b

\* encode_primary: None for Primary::Unknown, else the solver term.
EncodePrimary(p) == IF p[1] = "unk" THEN <<"none">> ELSE <<"some", p>>

\* encode_bool_expression: the solver formula (no Unknown left in it).
RECURSIVE EncodeBoolExpression(_)
EncodeBoolExpression(e) ==
    CASE e[1] = "true" -> True_
      [] e[1] = "false" -> False_
      [] e[1] = "unknown" -> True_
      [] e[1] = "bin" ->
            LET l == EncodePrimary(e[2])
                r == EncodePrimary(e[4])
            IN IF l[1] = "none" \/ r[1] = "none"
               THEN True_
               ELSE Binary(l[2], e[3], r[2])
      [] e[1] = "not" -> Not(EncodeBoolExpression(e[2]))
      [] e[1] = "and" -> And(EncodeBoolExpression(e[2]), EncodeBoolExpression(e[3]))
      [] e[1] = "or" -> Or(EncodeBoolExpression(e[2]), EncodeBoolExpression(e[3]))

\* The integer constants (variables) of a solver formula.
RECURSIVE FormulaVars(_)
FormulaVars(f) ==
    CASE f[1] = "bin" -> {p \in {f[2], f[4]} : p[1] = "var"}
      [] f[1] = "not" -> FormulaVars(f[2])
      [] f[1] \in {"and", "or"} -> FormulaVars(f[2]) \cup FormulaVars(f[3])
      [] OTHER -> {}

\* Truth of a solver formula under an assignment.
RECURSIVE Holds(_, _)
Holds(f, asg) ==
    CASE f[1] = "true" -> TRUE
      [] f[1] = "false" -> FALSE
      [] f[1] = "bin" -> Rel(f[3], TermValue(f[2], asg), TermValue(f[4], asg))
      [] f[1] = "not" -> ~Holds(f[2], asg)
      [] f[1] = "and" -> Holds(f[2], asg) /\ Holds(f[3], asg)
      [] f[1] = "or" -> Holds(f[2], asg) \/ Holds(f[3], asg)

\* The solver's decision on a set of assertions (linear integer arithmetic).
Decide(assertions) ==
    LET vs == UNION {FormulaVars(f) : f \in assertions}
    IN \E asg \in [vs -> SolverDomain] : \A f \in assertions : Holds(f, asg)

(***************************************************************************)
(* Environment (cfsm/env.rs): a set of BoolExpression.                     *)
(***************************************************************************)
EmptyEnv == {}

\* A mutant of Extend: the new constraint replaces the previous ones.
ExtendReplacing(env, e) == {e}

\* Environment::extend
Extend(env, e) == env \cup {e}

\* Primary with the binding of variable v replaced by ghost g.
RebindPrimary(p, v, g) == IF p = Var(v) THEN <<"var", v, g>> ELSE p

\* BoolExpression::invalidate_and_rebind_var, with the ghost it renames to.
RECURSIVE InvalidateAndRebindVar(_, _, _)
InvalidateAndRebindVar(e, v, g) ==
    CASE e[1] = "bin" -> Binary(RebindPrimary(e[2], v, g), e[3], RebindPrimary(e[4], v, g))
      [] e[1] = "not" -> Not(InvalidateAndRebindVar(e[2], v, g))
      [] e[1] = "and" -> And(InvalidateAndRebindVar(e[2], v, g),
                             InvalidateAndRebindVar(e[3], v, g))
      [] e[1] = "or" -> Or(InvalidateAndRebindVar(e[2], v, g),
                           InvalidateAndRebindVar(e[3], v, g))
      [] OTHER -> e

\* Variables (with their ghost index) mentioned by an expression.
RECURSIVE ExprVars(_)
ExprVars(e) ==
    CASE e[1] = "bin" -> {p \in {e[2], e[4]} : p[1] = "var"}
      [] e[1] = "not" -> ExprVars(e[2])
      [] e[1] \in {"and", "or"} -> ExprVars(e[2]) \cup ExprVars(e[3])
      [] OTHER -> {}

\* The fresh ghost of v for an environment: one more than every index in use.
FreshGhost(env, v) ==
    LET used == {p[3] : p \in {q \in UNION {ExprVars(e) : e \in env} : q[2] = v}}
    IN IF used = {} THEN 1
       ELSE 1 + (CHOOSE m \in used : \A n \in used : n <= m)

\* A mutant of Update: the previous constraints keep their binding of v.
UpdateKeepBinding(env, u) == env \cup {Binary(Var(u[1]), "eq", u[2])}

\* Environment::update; an Update is <<v, primary>>.
Update(env, u) ==
    LET g == FreshGhost(env, u[1])
        old_env == {InvalidateAndRebindVar(e, u[1], g) : e \in env}
    IN old_env \cup {Binary(Var(u[1]), "eq", u[2])}

\* Environment::satisfiable: "sat", "unsat" or "unknown" (UnsolvableConstraints).
Satisfiable(env, hard) ==
    IF env \cap hard # {} THEN "unknown"
    ELSE IF Decide({EncodeBoolExpression(e) : e \in env}) THEN "sat" ELSE "unsat"

\* solver.push(): a new scope on top of the stack.
SolverPush(stack) == Append(stack, {})

\* solver.assert(f): f joins the top scope.
SolverAssert(stack, fs) == [stack EXCEPT ![Len(stack)] = @ \cup fs]

\* A mutant of SolverPop: the scope stays.
SolverPopNothing(stack, n) == stack

\* solver.pop(n): the n top scopes and their assertions are dropped.
SolverPop(stack, n) == SubSeq(stack, 1, Len(stack) - n)

\* solver.get_assertions(): the assertions of all scopes of the stack.
GetAssertions(stack) == UNION {stack[k] : k \in DOMAIN stack}

\* Environment::satisfiable on a solver with the given stack: the verdict of
\* solver.check() on all assertions of the stack, the stack it leaves and the
\* constraints of the error returned on "unknown".
SatisfiableOnSolver(env, stack, hard) ==
    LET asserted == SolverAssert(SolverPush(stack), {EncodeBoolExpression(e) : e \in env})
        verdict == IF env \cap hard # {} THEN "unknown"
                   ELSE IF Decide(GetAssertions(asserted)) THEN "sat" ELSE "unsat"
        popped == SolverPop(asserted, 1)
    IN [verdict |-> verdict, stack |-> popped, constraints |-> GetAssertions(popped)]

(***************************************************************************)
(* CFSMs and groups (cfsm/fsm.rs types as used by cfsm/synthesis.rs).      *)
(* An EdgeInfo is [communication, guard, updates]:                         *)
(*   communication: <<"none">> | <<"send", ch, is_external>>               *)
(*                  | <<"recv", ch, is_external>>                          *)
(*   guard:         <<"none">> | <<"some", BoolExpression>>                *)
(*   updates:       a sequence of Update <<v, primary>>                    *)
(* A local edge is [inst, id, src, dst, info]; id is its EdgeIndex in the  *)
(* CFSM of inst. Every CFSM has initial node 0.                            *)
(***************************************************************************)
Inst == {"A", "B", "C"}

NoComm == <<"none">>
NoGuard == <<"none">>
EdgeInfo(c, g, u) == [communication |-> c, guard |-> g, updates |-> u]

GuardX0 == Binary(X, "eq", IntLit(0))
GuardX1 == Binary(X, "eq", IntLit(1))

\* The edge labels groups are built from.
Labels == <<
    EdgeInfo(NoComm, NoGuard, <<>>),                              \* silent jump
    EdgeInfo(<<"send", "c", FALSE>>, NoGuard, <<>>),              \* internal send(c)
    EdgeInfo(<<"recv", "c", FALSE>>, NoGuard, <<>>),              \* internal recv(c)
    EdgeInfo(<<"recv", "d", FALSE>>, NoGuard, <<>>),              \* internal recv(d)
    EdgeInfo(<<"send", "e", TRUE>>, NoGuard, <<>>),               \* external send(e)
    EdgeInfo(NoComm, <<"some", GuardX0>>, <<>>),                  \* [x = 0]
    EdgeInfo(NoComm, <<"some", And(GuardX0, GuardX1)>>, <<>>),    \* [x = 0 /\ x = 1]
    EdgeInfo(NoComm, NoGuard, << <<"x", IntLit(1)>> >>),          \* x := 1
    EdgeInfo(<<"send", "c", FALSE>>, <<"some", GuardX0>>, <<>>),  \* [x = 0] send(c)
    EdgeInfo(<<"recv", "c", FALSE>>, <<"some", GuardX1>>, <<>>)   \* [x = 1] recv(c)
>>

\* The labels the edges of each instance are drawn from.
InstLabels(i) ==
    CASE i = "A" -> (1..9) \ {4}
      [] i = "B" -> {1, 3, 4, 10}
      [] i = "C" -> {1}

LocalNodes == {0, 1}

\* The <<source, target>> pairs the edges of an instance with a label are
\* drawn from. Guarded and updating edges are the entry into node 1 and the
\* loop at node 1; a guarded communication is the entry into node 1.
InstEndpoints(i, l) ==
    CASE l >= 9 -> {<<0, 1>>}
      [] i = "A" /\ l <= 5 -> {<<0, 0>>, <<0, 1>>, <<1, 0>>, <<1, 1>>}
      [] i = "A" /\ l > 5 -> {<<0, 1>>, <<1, 1>>}
      [] OTHER -> {<<0, 0>>, <<0, 1>>}

EdgeUniverse ==
    {[inst |-> q[1], id |-> (q[2] - 1) * 4 + q[3][1] * 2 + q[3][2],
      src |-> q[3][1], dst |-> q[3][2], info |-> Labels[q[2]]] :
        q \in {r \in Inst \X (1..Len(Labels)) \X (LocalNodes \X LocalNodes) :
                  r[2] \in InstLabels(r[1]) /\ r[3] \in InstEndpoints(r[1], r[2])}}

\* The edge of instance i with label l from node s to node d.
LocalEdge(i, l, s, d) ==
    [inst |-> i, id |-> (l - 1) * 4 + s * 2 + d, src |-> s, dst |-> d, info |-> Labels[l]]

EdgesOfInstance(g, i) == {e \in g : e.inst = i}

\* The nodes of the CFSM of instance i in group g.
NodesOfInstance(g, i) ==
    {0} \cup {e.src : e \in EdgesOfInstance(g, i)} \cup {e.dst : e \in EdgesOfInstance(g, i)}

\* group.get(instance).fsm.edge_weight(edge_id) and its endpoints
EdgeOf(i, id) == CHOOSE e \in group : e.inst = i /\ e.id = id

\* The orders in which a HashMap over the instances may iterate. Instances
\* without edges contribute nothing to an iteration; they are kept last.
Rank(i) == CASE i = "A" -> 1 [] i = "B" -> 2 [] i = "C" -> 3

IterationOrders(g) ==
    {p \in [1..Cardinality(Inst) -> Inst] :
        /\ \A a, b \in DOMAIN p : a # b => p[a] # p[b]
        /\ \A a, b \in DOMAIN p :
              (a < b /\ EdgesOfInstance(g, p[a]) = {}) =>
                 (EdgesOfInstance(g, p[b]) = {} /\ Rank(p[a]) < Rank(p[b]))}

\* The guards of a group: the constraints the solver may fail to decide.
GuardsOf(g) == {e.info.guard[2] : e \in {f \in g : f.info.guard # NoGuard}}

(***************************************************************************)
(* synthesize (cfsm/synthesis.rs).                                         *)
(***************************************************************************)
\* SynthesisState
SynthesisState(lc, env, trace) ==
    [local_configurations |-> lc, current_env |-> env, error_trace |-> trace]

InitialLocals == [i \in Inst |-> 0]

\* local_configurations.values().cloned().collect(): the Vec<NodeIndex> key
LocalNodesVec(lc) == [k \in 1..Cardinality(Inst) |-> lc[order[k]]]

\* retrieve_or_construct_node: the BlankNode memoized for a Vec<NodeIndex>;
\* a BlankNode is identified with the key it was constructed for.
RetrieveOrConstructNode(nodes) == nodes

\* synthesis_state_to_config
SynthesisStateToConfig(st) ==
    <<RetrieveOrConstructNode(LocalNodesVec(st.local_configurations)), st.current_env>>

\* A mutant of ReturnToInitialState: no successor counts as a return.
ReturnToInitialStateNever(initial, next_global_node) == FALSE

\* return_to_initial_state
ReturnToInitialState(initial, next_global_node) ==
    initial[1] = "some" /\ initial[2] = next_global_node

\* cfsm.fsm.edges(node): outgoing edges, most recently added first.
RECURSIVE EdgesDescending(_)
EdgesDescending(S) ==
    IF S = {} THEN <<>>
    ELSE LET m == CHOOSE e \in S : \A f \in S : f.id <= e.id
         IN <<m>> \o EdgesDescending(S \ {m})

OutgoingEdges(i, node) ==
    EdgesDescending({e \in EdgesOfInstance(group, i) : e.src = node})

\* The local edges visited by the two loops of all_possible_local_steps, in order.
RECURSIVE VisitedLocalEdges(_, _)
VisitedLocalEdges(lc, k) ==
    IF k > Len(order) THEN <<>>
    ELSE OutgoingEdges(order[k], lc[order[k]]) \o VisitedLocalEdges(lc, k + 1)

\* all_possible_local_steps, lines 504-511: the environment that is checked.
ExtendedEnv(info, env) ==
    LET RECURSIVE Apply(_, _)
        Apply(en, k) == IF k > Len(info.updates) THEN en
                        ELSE Apply(Update(en, info.updates[k]), k + 1)
    IN Apply(IF info.guard # NoGuard THEN Extend(env, info.guard[2]) ELSE env, 1)

\* The verdict of the feasibility check of an edge: "trivial" when it has no
\* guard and no update (no solver call), else what satisfiable returns.
Feasibility(info, env) ==
    IF info.guard = NoGuard /\ info.updates = <<>> THEN "trivial"
    ELSE Satisfiable(ExtendedEnv(info, env), unsolvable)

\* all_possible_local_steps, lines 501-519: the local `satisfiable`.
IsSatisfiable(info, env) ==
    LET verdict == Feasibility(info, env)
    IN CASE verdict = "trivial" -> TRUE
         [] verdict = "sat" -> TRUE
         [] verdict = "unsat" -> FALSE
         [] verdict = "unknown" -> FALSE   \* e.report(); false

LocalStep(e) == <<e.inst, e.src, e.id>>

IsJumpEdge(e) == e.info.communication = NoComm
IsExternalEdge(e) == e.info.communication # NoComm /\ e.info.communication[3]
IsInternalSend(e) ==
    /\ e.info.communication # NoComm
    /\ ~e.info.communication[3]
    /\ e.info.communication[1] = "send"
IsInternalRecv(e) ==
    /\ e.info.communication # NoComm
    /\ ~e.info.communication[3]
    /\ e.info.communication[1] # "send"

MapLocalSteps(es) == [k \in 1..Len(es) |-> LocalStep(es[k])]

\* all_possible_local_steps: (jumps, externals, internal_sendings, internal_receivings)
AllPossibleLocalSteps(lc, env) ==
    LET Sat(e) == IsSatisfiable(e.info, env)
        es == SelectSeq(VisitedLocalEdges(lc, 1), Sat)
    IN [jumps |-> MapLocalSteps(SelectSeq(es, IsJumpEdge)),
        externals |-> MapLocalSteps(SelectSeq(es, IsExternalEdge)),
        sendings |-> MapLocalSteps(SelectSeq(es, IsInternalSend)),
        receivings |-> MapLocalSteps(SelectSeq(es, IsInternalRecv))]

\* retrieve_channel_from_map
RetrieveChannelFromMap(i, id) == EdgeOf(i, id).info.communication[2]

\* construct_action_description: Action{subject, action: edge.describe()}
ConstructActionDescription(i, id) == <<i, EdgeOf(i, id).info>>

\* SynthesisStep
Jump(ls) == <<"jump", ls[1], ls[2], ls[3]>>
External(ls) == <<"external", ls[1], ls[2], ls[3]>>
Match(s, r) == <<"match", s[1], s[2], s[3], r[1], r[2], r[3]>>

\* A mutant of MatchCondition: the instances are not compared.
MatchConditionAnyInstance(s, r) ==
    RetrieveChannelFromMap(s[1], s[3]) = RetrieveChannelFromMap(r[1], r[3])

\* generate_all_possible_synthesis_steps, line 424: from two different cfsms
\* and through the same channel.
MatchCondition(s, r) ==
    /\ s[1] # r[1]
    /\ RetrieveChannelFromMap(s[1], s[3]) = RetrieveChannelFromMap(r[1], r[3])

\* generate_all_possible_synthesis_steps, lines 419-435: the nested loops.
MatchSteps(sendings, receivings) ==
    LET n == Len(sendings) * Len(receivings)
        S(k) == sendings[((k - 1) \div Len(receivings)) + 1]
        R(k) == receivings[((k - 1) % Len(receivings)) + 1]
        RECURSIVE From(_)
        From(k) == IF k > n THEN <<>>
                   ELSE (IF MatchCondition(S(k), R(k)) THEN <<Match(S(k), R(k))>> ELSE <<>>)
                        \o From(k + 1)
    IN From(1)

\* VerilockError and the Ok of synthesize
NoResult == [kind |-> "none", module |-> "", trace |-> <<>>, dangling |-> <<>>]
OkResult == [kind |-> "Ok", module |-> "", trace |-> <<>>, dangling |-> <<>>]
DanglingSending(trace, dangling) ==
    [kind |-> "DanglingSending", module |-> "", trace |-> trace, dangling |-> dangling]
DanglingReceiving(trace, dangling) ==
    [kind |-> "DanglingReceiving", module |-> "", trace |-> trace, dangling |-> dangling]
LiveLock(i) == [kind |-> "LiveLock", module |-> i, trace |-> <<>>, dangling |-> <<>>]

\* A mutant of StepsOrError: a configuration without steps is a dangling send
\* whether or not an internal send is enabled there.
StepsOrErrorDanglingWhenStuck(l, error_trace) ==
    LET steps == [k \in 1..Len(l.jumps) |-> Jump(l.jumps[k])]
                 \o [k \in 1..Len(l.externals) |-> External(l.externals[k])]
                 \o MatchSteps(l.sendings, l.receivings)
    IN [steps |-> steps,
        err |-> IF steps # <<>> THEN NoResult ELSE DanglingSending(error_trace, <<>>),
        local |-> l]

\* A mutant of StepsOrError: a configuration without steps is a dangling
\* receive whether or not an internal receive is enabled there.
StepsOrErrorReceivingWhenStuck(l, error_trace) ==
    LET steps == [k \in 1..Len(l.jumps) |-> Jump(l.jumps[k])]
                 \o [k \in 1..Len(l.externals) |-> External(l.externals[k])]
                 \o MatchSteps(l.sendings, l.receivings)
    IN [steps |-> steps,
        err |-> IF steps # <<>> THEN NoResult ELSE DanglingReceiving(error_trace, <<>>),
        local |-> l]

\* A mutant of StepsOrError: a pending receive is reported before a pending send.
StepsOrErrorReceivingFirst(l, error_trace) ==
    LET steps == [k \in 1..Len(l.jumps) |-> Jump(l.jumps[k])]
                 \o [k \in 1..Len(l.externals) |-> External(l.externals[k])]
                 \o MatchSteps(l.sendings, l.receivings)
        err == IF steps # <<>> THEN NoResult
               ELSE IF l.receivings # <<>>
                    THEN DanglingReceiving(error_trace,
                            ConstructActionDescription(l.receivings[1][1], l.receivings[1][3]))
               ELSE IF l.sendings # <<>>
                    THEN DanglingSending(error_trace,
                            ConstructActionDescription(l.sendings[1][1], l.sendings[1][3]))
               ELSE NoResult
    IN [steps |-> steps, err |-> err, local |-> l]

\* generate_all_possible_synthesis_steps, lines 403-450, from the four lists l:
\* Ok(steps) or Err(dangling error), together with the lists.
StepsOrError(l, error_trace) ==
    LET steps == [k \in 1..Len(l.jumps) |-> Jump(l.jumps[k])]
                 \o [k \in 1..Len(l.externals) |-> External(l.externals[k])]
                 \o MatchSteps(l.sendings, l.receivings)
        err == IF steps # <<>> THEN NoResult
               ELSE IF l.sendings # <<>>
                    THEN DanglingSending(error_trace,
                            ConstructActionDescription(l.sendings[1][1], l.sendings[1][3]))
               ELSE IF l.receivings # <<>>
                    THEN DanglingReceiving(error_trace,
                            ConstructActionDescription(l.receivings[1][1], l.receivings[1][3]))
               ELSE NoResult
    IN [steps |-> steps, err |-> err, local |-> l]

\* generate_all_possible_synthesis_steps
GenerateAllPossibleSynthesisSteps(lc, env, error_trace) ==
    CHOOSE r \in {StepsOrError(l, error_trace) : l \in {AllPossibleLocalSteps(lc, env)}} : TRUE

\* record_used_edges
RecordUsedEdges(used, step) ==
    IF step[1] = "match"
    THEN used \cup {<<step[2], step[4]>>, <<step[5], step[7]>>}
    ELSE used \cup {<<step[2], step[4]>>}

\* retrieve_next_node
RetrieveNextNode(i, id) == EdgeOf(i, id).dst

\* A mutant of NextLocalConfigurations: a Match advances only the sender.
NextLocalConfigurationsSenderOnly(current, step) ==
    [current EXCEPT ![step[2]] = RetrieveNextNode(step[2], step[4])]

\* next_local_configurations
NextLocalConfigurations(current, step) ==
    IF step[1] = "match"
    THEN [current EXCEPT ![step[2]] = RetrieveNextNode(step[2], step[4]),
                         ![step[5]] = RetrieveNextNode(step[5], step[7])]
    ELSE [current EXCEPT ![step[2]] = RetrieveNextNode(step[2], step[4])]

\* merge_guard
MergeGuard(s_guard, r_guard) ==
    IF s_guard # NoGuard /\ r_guard # NoGuard
    THEN <<"some", And(s_guard[2], r_guard[2])>>
    ELSE IF s_guard # NoGuard THEN s_guard ELSE r_guard

\* A mutant of StepToEdgeInfo: a Match keeps the sender's communication.
StepToEdgeInfoKeepSend(step) ==
    IF step[1] = "match"
    THEN LET s_edge == EdgeOf(step[2], step[4]).info
             r_edge == EdgeOf(step[5], step[7]).info
         IN EdgeInfo(s_edge.communication, MergeGuard(s_edge.guard, r_edge.guard),
                     s_edge.updates \o r_edge.updates)
    ELSE EdgeOf(step[2], step[4]).info

\* step_to_edge_info
StepToEdgeInfo(step) ==
    IF step[1] = "match"
    THEN LET s_edge == EdgeOf(step[2], step[4]).info
             r_edge == EdgeOf(step[5], step[7]).info
         IN EdgeInfo(NoComm, MergeGuard(s_edge.guard, r_edge.guard),
                     s_edge.updates \o r_edge.updates)
    ELSE EdgeOf(step[2], step[4]).info

\* modify_environment_by_edge
ModifyEnvironmentByEdge(edge_info, current_env) ==
    LET RECURSIVE Apply(_, _)
        Apply(en, k) == IF k > Len(edge_info.updates) THEN en
                        ELSE Apply(Update(en, edge_info.updates[k]), k + 1)
    IN Apply(IF edge_info.guard # NoGuard
             THEN Extend(current_env, edge_info.guard[2])
             ELSE current_env, 1)

\* A mutant of RecordErrorTrace: a Match records only the sender's action.
RecordErrorTraceSenderOnly(old_trace, step) ==
    Append(old_trace, ConstructActionDescription(step[2], step[4]))

\* record_error_trace
RecordErrorTrace(old_trace, step) ==
    IF step[1] = "match"
    THEN old_trace \o <<ConstructActionDescription(step[2], step[4]),
                        ConstructActionDescription(step[5], step[7])>>
    ELSE Append(old_trace, ConstructActionDescription(step[2], step[4]))

\* A mutant of ProcessStep: a successor is pushed to the front of the queue.
ProcessStepPushFront(step, lc, env, trace, nodes, acc) ==
    LET next_configurations == NextLocalConfigurations(lc, step)
        next_node == RetrieveOrConstructNode(LocalNodesVec(next_configurations))
        edge == StepToEdgeInfo(step)
        next_env == ModifyEnvironmentByEdge(edge, env)
        next_synthesis_state ==
            SynthesisState(next_configurations, next_env, RecordErrorTrace(trace, step))
        next_global_config == <<next_node, next_env>>
        explore == /\ next_global_config \notin acc.visited
                   /\ ~ReturnToInitialState(nodes.initial, next_node)
    IN [used |-> RecordUsedEdges(acc.used, step),
        fsm |-> Append(acc.fsm, [src |-> nodes.source, dst |-> next_node,
                                 info |-> edge, step |-> step]),
        visited |-> IF explore THEN acc.visited \cup {next_global_config}
                    ELSE acc.visited,
        queue |-> IF explore THEN <<next_synthesis_state>> \o acc.queue
                  ELSE acc.queue,
        succ |-> Append(acc.succ, next_configurations)]

\* A mutant of ProcessStep: the local edges of a step are recorded only when
\* its successor is enqueued.
ProcessStepUsedWhenExplored(step, lc, env, trace, nodes, acc) ==
    LET next_configurations == NextLocalConfigurations(lc, step)
        next_node == RetrieveOrConstructNode(LocalNodesVec(next_configurations))
        edge == StepToEdgeInfo(step)
        next_env == ModifyEnvironmentByEdge(edge, env)
        next_synthesis_state ==
            SynthesisState(next_configurations, next_env, RecordErrorTrace(trace, step))
        next_global_config == <<next_node, next_env>>
        explore == /\ next_global_config \notin acc.visited
                   /\ ~ReturnToInitialState(nodes.initial, next_node)
    IN [used |-> IF explore THEN RecordUsedEdges(acc.used, step) ELSE acc.used,
        fsm |-> Append(acc.fsm, [src |-> nodes.source, dst |-> next_node,
                                 info |-> edge, step |-> step]),
        visited |-> IF explore THEN acc.visited \cup {next_global_config}
                    ELSE acc.visited,
        queue |-> IF explore THEN Append(acc.queue, next_synthesis_state)
                  ELSE acc.queue,
        succ |-> Append(acc.succ, next_configurations)]

\* start_synthesizing_fsm, lines 141-168: the body of `for step in synthesis_steps`
\* for one step. acc holds used_edges, fsm, visited_global_configs,
\* synthesis_queue and the successors computed so far.
ProcessStep(step, lc, env, trace, nodes, acc) ==
    LET next_configurations == NextLocalConfigurations(lc, step)
        next_node == RetrieveOrConstructNode(LocalNodesVec(next_configurations))
        edge == StepToEdgeInfo(step)
        next_env == ModifyEnvironmentByEdge(edge, env)
        next_synthesis_state ==
            SynthesisState(next_configurations, next_env, RecordErrorTrace(trace, step))
        next_global_config == <<next_node, next_env>>
        explore == /\ next_global_config \notin acc.visited
                   /\ ~ReturnToInitialState(nodes.initial, next_node)
    IN [used |-> RecordUsedEdges(acc.used, step),
        fsm |-> Append(acc.fsm, [src |-> nodes.source, dst |-> next_node,
                                 info |-> edge, step |-> step]),
        visited |-> IF explore THEN acc.visited \cup {next_global_config}
                    ELSE acc.visited,
        queue |-> IF explore THEN Append(acc.queue, next_synthesis_state)
                  ELSE acc.queue,
        succ |-> Append(acc.succ, next_configurations)]

\* start_synthesizing_fsm, lines 140-169: `for step in synthesis_steps`, from
\* index k on (each accumulator is computed once, then handed on).
RECURSIVE ProcessSteps(_, _, _, _, _, _, _)
ProcessSteps(steps, k, lc, env, trace, nodes, acc) ==
    IF k > Len(steps) THEN acc
    ELSE CHOOSE r \in {ProcessSteps(steps, k + 1, lc, env, trace, nodes, a) :
                         a \in {ProcessStep(steps[k], lc, env, trace, nodes, acc)}} : TRUE

\* What `last` holds before the first configuration is dequeued.
NoLast ==
    [valid |-> FALSE, lc |-> InitialLocals, env |-> {}, trace |-> <<>>,
     local |-> [jumps |-> <<>>, externals |-> <<>>, sendings |-> <<>>, receivings |-> <<>>],
     unknown |-> {}, steps |-> <<>>, succ |-> <<>>, enqueued |-> <<>>]

\* A mutant of CheckLiveLocked: no instance is ever reported.
CheckLiveLockedNever(p, used) == <<"none">>

\* check_live_locked, for one iteration order p of the group.
CheckLiveLocked(p, used) ==
    LET locked(k) == /\ EdgesOfInstance(group, p[k]) # {}
                     /\ {<<p[k], e.id>> : e \in EdgesOfInstance(group, p[k])} \cap used = {}
        hits == {k \in DOMAIN p : locked(k)}
    IN IF hits = {} THEN <<"none">>
       ELSE <<"some", p[CHOOSE k \in hits : \A j \in hits : k <= j]>>

\* All iteration orders of the group HashMap.
GroupOrders ==
    {p \in [1..Cardinality(Inst) -> Inst] : \A a, b \in DOMAIN p : a # b => p[a] # p[b]}

SynthIdle ==
    /\ group = {} /\ order = <<>> /\ unsolvable = {}
    /\ synthesis_queue = <<>> /\ visited_global_configs = {}
    /\ used_edges = {} /\ fsm = <<>> /\ pc = "idle"
    /\ initial_node = <<"none">>
    /\ result = NoResult /\ last = NoLast /\ dequeued = <<>>

\* Solver::new (analysis.rs 24): one scope, nothing asserted.
NewSolver == <<{}>>

EncIdle ==
    /\ encIn = {} /\ encOut = "idle" /\ encOps = <<>> /\ encHist = <<>>
    /\ solverStack = NewSolver /\ constraints = {}

AnalyzeIdle ==
    /\ forest = <<>> /\ extraction = "ok" /\ apc = "idle" /\ nextTree = 0
    /\ error_detected = FALSE /\ reported = <<>> /\ analyzed = {}
    /\ verifiedPrinted = 0

TreeIdle ==
    /\ dependency_tree = <<>> /\ module_instances = <<>> /\ task_queue = <<>>
    /\ cfsm_map = <<>> /\ instantiations = <<>> /\ synthesized = <<>>
    /\ tree_result = "idle"

SubstIdle == ports = <<>> /\ connections = <<>> /\ subst = <<>> /\ TreeIdle

\* synthesize, lines 67-91: the state handed to start_synthesizing_fsm, and
\* start_synthesizing_fsm, lines 106-117.
Init ==
    /\ group \in SubsetsUpTo(EdgeUniverse, MaxEdges)
    /\ order \in IterationOrders(group)
    /\ unsolvable \in {{}} \cup {{g} : g \in GuardsOf(group)}
    /\ used_edges = {}
    /\ fsm = <<>>
    /\ synthesis_queue = <<SynthesisState(InitialLocals, EmptyEnv, <<>>)>>
    /\ visited_global_configs =
          {SynthesisStateToConfig(SynthesisState(InitialLocals, EmptyEnv, <<>>))}
    /\ initial_node = <<"none">>
    /\ pc = "loop"
    /\ result = NoResult
    /\ last = NoLast
    /\ dequeued = <<>>
    /\ EncIdle
    /\ AnalyzeIdle /\ SubstIdle

\* One iteration of `while let Some(synthesis_state) = synthesis_queue.pop_front()`.
Expand ==
    /\ pc = "loop"
    /\ synthesis_queue # <<>>
    /\ Cardinality(Head(synthesis_queue).current_env) <= MaxEnvSize
    /\ \E st \in {Head(synthesis_queue)} :
       \E source_node \in {RetrieveOrConstructNode(LocalNodesVec(st.local_configurations))} :
       \E init_node \in {IF initial_node = <<"none">> THEN <<"some", source_node>>
                         ELSE initial_node} :
       \E gen \in {GenerateAllPossibleSynthesisSteps(
                      st.local_configurations, st.current_env, st.error_trace)} :
       \E acc \in {ProcessSteps(gen.steps, 1, st.local_configurations, st.current_env,
                                st.error_trace,
                                [source |-> source_node, initial |-> init_node],
                                [used |-> used_edges, fsm |-> fsm,
                                 visited |-> visited_global_configs,
                                 queue |-> Tail(synthesis_queue), succ |-> <<>>])} :
          /\ initial_node' = init_node
          /\ dequeued' = Append(dequeued, SynthesisStateToConfig(st))
          /\ last' = [valid |-> TRUE, lc |-> st.local_configurations,
                      env |-> st.current_env, trace |-> st.error_trace,
                      local |-> gen.local,
                      unknown |-> {LocalStep(e) : e \in {f \in group :
                                     /\ f.src = st.local_configurations[f.inst]
                                     /\ Feasibility(f.info, st.current_env) = "unknown"}},
                      steps |-> gen.steps,
                      succ |-> acc.succ,
                      enqueued |-> SubSeq(acc.queue, Len(synthesis_queue), Len(acc.queue))]
          /\ IF gen.err # NoResult
             THEN /\ pc' = "done"
                  /\ result' = gen.err
                  /\ synthesis_queue' = Tail(synthesis_queue)
                  /\ UNCHANGED <<visited_global_configs, used_edges, fsm>>
             ELSE /\ synthesis_queue' = acc.queue
                  /\ visited_global_configs' = acc.visited
                  /\ used_edges' = acc.used
                  /\ fsm' = acc.fsm
                  /\ UNCHANGED <<pc, result>>
    /\ UNCHANGED <<group, order, unsolvable, encVars, analyzeVars, substVars, treeVars>>

\* start_synthesizing_fsm, lines 171-178, and the map of synthesize: the queue
\* is empty; LiveLock for the first live-locked instance the group iterates
\* to, else Ok.
Finish ==
    /\ pc = "loop"
    /\ synthesis_queue = <<>>
    /\ \E p \in GroupOrders :
          LET locked == CheckLiveLocked(p, used_edges)
          IN result' = IF locked = <<"none">> THEN OkResult ELSE LiveLock(locked[2])
    /\ pc' = "done"
    /\ UNCHANGED <<group, order, unsolvable, synthesis_queue, visited_global_configs,
                   used_edges, fsm, initial_node, last, dequeued,
                   encVars, analyzeVars, substVars, treeVars>>

Next == Expand \/ Finish

Spec == Init /\ [][Next]_vars

\* The synthesizer with its loop scheduled: a started synthesize keeps running.
FairSpec == Spec /\ WF_vars(Next)

(***************************************************************************)
(* Properties of synthesize.                                               *)
(***************************************************************************)
Range(f) == {f[k] : k \in DOMAIN f}

DanglingKinds == {"DanglingSending", "DanglingReceiving"}

\* The instances check_live_locked may report: a non-empty CFSM, no edge used.
LiveLockedInstances ==
    {i \in Inst : /\ EdgesOfInstance(group, i) # {}
                  /\ \A e \in EdgesOfInstance(group, i) : <<i, e.id>> \notin used_edges}

\* The product over the instances of the number of nodes of their CFSMs.
RECURSIVE NodeProduct(_)
NodeProduct(S) ==
    IF S = {} THEN 1
    ELSE LET i == CHOOSE j \in S : TRUE
         IN Cardinality(NodesOfInstance(group, i)) * NodeProduct(S \ {i})

\* C1: when an instance has an internal send pending at its initial node and
\* no other instance has an internal receive on that channel anywhere, synthesize
\* returns DanglingSending; an internal receive pending at the initial node with
\* no internal send on its channel in another instance makes it return a
\* dangling error as well.
C1_UnmatchedInternalIsDangling ==
    pc = "done" =>
       /\ (\E e \in group :
              /\ IsInternalSend(e) /\ e.src = 0
              /\ ~\E r \in group : /\ IsInternalRecv(r) /\ r.inst # e.inst
                                   /\ r.info.communication[2] = e.info.communication[2])
            => result.kind = "DanglingSending"
       /\ (\E e \in group :
              /\ IsInternalRecv(e) /\ e.src = 0
              /\ ~\E r \in group : /\ IsInternalSend(r) /\ r.inst # e.inst
                                   /\ r.info.communication[2] = e.info.communication[2])
            => result.kind \in DanglingKinds

\* C2 as stated: when the exploration has run to its end, every instance with
\* a non-empty edge set and no used edge is the one LiveLock names.
C2_LiveLockNamesThatInstance ==
    (pc = "done" /\ result.kind \notin DanglingKinds) =>
        \A i \in LiveLockedInstances : result = LiveLock(i)

\* C2 amended: when the exploration has run to its end and some instance with
\* a non-empty edge set has no used edge, synthesize returns LiveLock naming one
\* such instance; without such an instance it returns Ok.
C2_LiveLockNamesSuchAnInstance ==
    (pc = "done" /\ result.kind \notin DanglingKinds) =>
        IF LiveLockedInstances # {}
        THEN result.kind = "LiveLock" /\ result.module \in LiveLockedInstances
        ELSE result = OkResult

C2_Witness ==
    /\ pc = "done"
    /\ result.kind = "LiveLock"
    /\ Cardinality(LiveLockedInstances) >= 2
    /\ used_edges # {}

C3_CutStateStillExplores ==
    (pc = "loop" /\ synthesis_queue # <<>>
       /\ Cardinality(Head(synthesis_queue).current_env) > MaxEnvSize) =>
        LET st == Head(synthesis_queue)
            gen == GenerateAllPossibleSynthesisSteps(
                      st.local_configurations, st.current_env, st.error_trace)
        IN \E k \in DOMAIN gen.steps :
              LET next_node == RetrieveOrConstructNode(
                                  LocalNodesVec(NextLocalConfigurations(
                                     st.local_configurations, gen.steps[k])))
                  next_env == ModifyEnvironmentByEdge(
                                 StepToEdgeInfo(gen.steps[k]), st.current_env)
              IN /\ <<next_node, next_env>> \notin visited_global_configs
                 /\ ~ReturnToInitialState(initial_node, next_node)

\* C4 as stated: the visited global configurations are at most the product of
\* the node counts of the instances' CFSMs.
C4_VisitedConfigsBoundedByProduct ==
    Cardinality(visited_global_configs) <= NodeProduct(Inst)

\* C5: every edge of the synthesized FSM is silent or carries an external
\* communication, and the edge of a Match step is silent.
C5_OnlySilentOrExternalEdges ==
    \A k \in DOMAIN fsm :
        /\ \/ fsm[k].info.communication = NoComm
           \/ fsm[k].info.communication[3]
        /\ fsm[k].step[1] = "match" => fsm[k].info.communication = NoComm

C5_Witness ==
    /\ pc = "done" /\ result = OkResult
    /\ \E k \in DOMAIN fsm : fsm[k].step[1] = "match"
    /\ \E k \in DOMAIN fsm : fsm[k].step[1] = "external"

\* The enabled local edges of kind K at the last dequeued configuration,
\* computed from the group.
EnabledAtLast(K(_)) ==
    {LocalStep(e) : e \in {f \in group :
        /\ f.src = last.lc[f.inst]
        /\ K(f)
        /\ Feasibility(f.info, last.env) \in {"trivial", "sat"}}}

\* C6: at every dequeued configuration the Match steps are exactly the pairs of
\* an enabled internal send and an enabled internal receive of different
\* instances on the same channel, each derived once, and a Match moves its two
\* instances to the targets of their edges and no other instance.
C6_MatchStepsAreTheRendezvousPairs ==
    last.valid =>
       LET matches == {k \in DOMAIN last.steps : last.steps[k][1] = "match"}
           pairs == {<<s, r>> \in EnabledAtLast(IsInternalSend) \X EnabledAtLast(IsInternalRecv) :
                        /\ s[1] # r[1]
                        /\ EdgeOf(s[1], s[3]).info.communication[2]
                              = EdgeOf(r[1], r[3]).info.communication[2]}
       IN /\ {last.steps[k] : k \in matches} = {Match(p[1], p[2]) : p \in pairs}
          /\ Cardinality(matches) = Cardinality(pairs)
          /\ pc = "loop" =>
                \A k \in matches :
                   LET st == last.steps[k]
                   IN \A i \in Inst :
                         last.succ[k][i] =
                            IF i = st[2] THEN EdgeOf(st[2], st[4]).dst
                            ELSE IF i = st[5] THEN EdgeOf(st[5], st[7]).dst
                            ELSE last.lc[i]

\* A Match step is derived and taken while an instance also has an internal
\* send and an internal receive of its own enabled on one channel.
C6_Witness ==
    /\ last.valid /\ pc = "loop"
    /\ \E k \in DOMAIN last.steps : last.steps[k][1] = "match"
    /\ \E s \in Range(last.local.sendings), r \in Range(last.local.receivings) :
          /\ s[1] = r[1]
          /\ EdgeOf(s[1], s[3]).info.communication[2]
                = EdgeOf(r[1], r[3]).info.communication[2]

\* C8: an edge whose feasibility check ended with UnsolvableConstraints is
\* treated as feasible: it is classified as enabled.
C8_UnknownIsTreatedAsFeasible ==
    last.valid =>
        last.unknown \subseteq
            (Range(last.local.jumps) \cup Range(last.local.externals)
               \cup Range(last.local.sendings) \cup Range(last.local.receivings))

\* C13: for a group whose CFSMs have no communication edge, synthesize never
\* returns DanglingSending or DanglingReceiving, and every edge of the FSM it
\* builds is silent.
C13_NoCommunicationNoDangling ==
    (\A e \in group : e.info.communication = NoComm) =>
        /\ result.kind \notin DanglingKinds
        /\ \A k \in DOMAIN fsm : fsm[k].info.communication = NoComm

\* synthesize has returned Ok for a group of several silent edges, one of them
\* guarded or updating, after dequeuing a configuration without any step.
C13_Witness ==
    /\ pc = "done" /\ result = OkResult
    /\ Cardinality(group) >= 2
    /\ \A e \in group : e.info.communication = NoComm
    /\ \E e \in group : e.info.guard # NoGuard \/ e.info.updates # <<>>
    /\ fsm # <<>>
    /\ last.valid /\ last.steps = <<>>

\* Scenario S3: A cycles send(c) then recv(c) back to its start, c internal;
\* B has one unguarded silent edge, from its initial node to node d.
S3Group(d) ==
    {LocalEdge("A", 2, 0, 1), LocalEdge("A", 3, 1, 0), LocalEdge("B", 1, 0, d)}

\* C14: for the group of scenario S3 synthesize returns LiveLock with
\* module = B.
C14_S3LiveLockOnB ==
    (pc = "done" /\ \E d \in LocalNodes : group = S3Group(d)) => result = LiveLock("B")

\* What synthesize returns for the group of scenario S3: the silent edge of B
\* is taken as a Jump step and recorded as used, and the error blames A: when B's edge
\* leaves its initial node synthesize returns DanglingSending for A's send with
\* the jump of B as trace, and when it is a loop at the initial node synthesize
\* returns LiveLock with module = A.
C14_S3BlamesA ==
    \A d \in LocalNodes :
        (pc = "done" /\ group = S3Group(d)) =>
            /\ <<"B", LocalEdge("B", 1, 0, d).id>> \in used_edges
            /\ d = 1 => result = DanglingSending(
                                    <<<<"B", Labels[1]>>>>, <<"A", Labels[2]>>)
            /\ d = 0 => result = LiveLock("A")

\* Scenario S4: the arm of a decision node of A guarded by x = 0 /\ x = 1.
S4Arm == LocalEdge("A", 7, 0, 1)

\* The groups of scenario S4: A alone, with the infeasible arm and any other
\* arms at the decision node that are silent or external (plain, guarded by
\* x = 0, or updating), and a solver that decides every guard.
S4Group ==
    /\ S4Arm \in group
    /\ \A e \in group : e.inst = "A" /\ e.src = 0 /\ ~IsInternalSend(e) /\ ~IsInternalRecv(e)
    /\ unsolvable = {}

\* C15: in scenario S4 the infeasible arm is never classified as enabled, no
\* edge of the synthesized FSM is derived from it, and synthesize reports no
\* error, whatever the other arms are and also when it is the only arm.
C15_S4InfeasibleArmIsHarmless ==
    S4Group =>
        /\ last.valid =>
              LocalStep(S4Arm) \notin
                 (Range(last.local.jumps) \cup Range(last.local.externals)
                    \cup Range(last.local.sendings) \cup Range(last.local.receivings))
        /\ \A k \in DOMAIN fsm : <<fsm[k].step[2], fsm[k].step[4]>> # <<"A", S4Arm.id>>
        /\ pc = "done" => result = OkResult

\* What synthesize does in scenario S4: the arm is never enabled and never in
\* the FSM; the result is Ok when the decision node has another arm, and
\* LiveLock with module = A when the infeasible arm is the only edge of A.
C15_S4OnlyArmIsLiveLock ==
    S4Group =>
        /\ last.valid =>
              LocalStep(S4Arm) \notin
                 (Range(last.local.jumps) \cup Range(last.local.externals)
                    \cup Range(last.local.sendings) \cup Range(last.local.receivings))
        /\ \A k \in DOMAIN fsm : <<fsm[k].step[2], fsm[k].step[4]>> # <<"A", S4Arm.id>>
        /\ pc = "done" => result = IF group = {S4Arm} THEN LiveLock("A") ELSE OkResult

\* find_index_by_weight_or_insert_node: the nodes of the synthesized FSM are
\* the source nodes of the dequeued states and the targets of the edges; every
\* dequeued state but the first was the target of an edge.
FsmNodes ==
    (IF initial_node[1] = "some" THEN {initial_node[2]} ELSE {})
       \cup {fsm[k].src : k \in DOMAIN fsm} \cup {fsm[k].dst : k \in DOMAIN fsm}

\* Scenario S1: A with a single internal send(c) edge, B with a single internal
\* recv(c) edge.
S1Group == {LocalEdge("A", 2, 0, 1), LocalEdge("B", 3, 0, 1)}

\* C16: for the group of scenario S1 synthesize returns Ok with an FSM of
\* exactly two nodes and exactly one edge, silent, from the initial global node
\* to a global node without outgoing edge.
C16_S1SingleRendezvous ==
    (pc = "done" /\ group = S1Group) =>
        /\ result = OkResult
        /\ Cardinality(FsmNodes) = 2
        /\ Len(fsm) = 1
        /\ fsm[1].info.communication = NoComm
        /\ fsm[1].src = initial_node[2]
        /\ fsm[1].dst # fsm[1].src
        /\ \A k \in DOMAIN fsm : fsm[k].src # fsm[1].dst

\* synthesize has returned for the group of scenario S1 after a Match step.
C16_Witness ==
    /\ pc = "done" /\ group = S1Group
    /\ \E k \in DOMAIN fsm : fsm[k].step[1] = "match"

\* C17: the result of synthesize does not depend on the order in which the
\* instances of the group are iterated: when the queue has run empty, every
\* iteration order of the group gives check_live_locked the same answer.
C17_ResultIndependentOfOrder ==
    (pc = "loop" /\ synthesis_queue = <<>>) =>
        \A p, q \in GroupOrders :
            CheckLiveLocked(p, used_edges) = CheckLiveLocked(q, used_edges)

\* C18: at a dequeued configuration without any step, an enabled internal send
\* makes the error DanglingSending even when an internal receive is enabled
\* too, and DanglingReceiving is returned only when an internal receive and no
\* internal send is enabled there.
C18_DanglingSendingPreferred ==
    (last.valid /\ last.steps = <<>>) =>
        /\ EnabledAtLast(IsInternalSend) # {} => result.kind = "DanglingSending"
        /\ result.kind = "DanglingReceiving" =>
              /\ EnabledAtLast(IsInternalSend) = {}
              /\ EnabledAtLast(IsInternalRecv) # {}

\* synthesize has failed at a configuration without steps where an internal
\* send and an internal receive were both enabled.
C18_Witness ==
    /\ last.valid /\ last.steps = <<>>
    /\ pc = "done" /\ result.kind = "DanglingSending"
    /\ EnabledAtLast(IsInternalSend) # {}
    /\ EnabledAtLast(IsInternalRecv) # {}

\* The Action of the local edge id of instance i: its subject and the
\* description of the edge.
ActionOf(i, id) == <<i, (CHOOSE e \in group : e.inst = i /\ e.id = id).info>>

\* The global nodes reached from the initial global node along edges of the
\* synthesized FSM whose steps have, in order, exactly the first n actions of
\* tr: one action for a Jump or External step, the sender's then the
\* receiver's for a Match step.
RECURSIVE NodesAfter(_, _)
NodesAfter(tr, n) ==
    IF n = 0 THEN {LocalNodesVec(InitialLocals)}
    ELSE {fsm[k].dst : k \in {j \in DOMAIN fsm :
              LET st == fsm[j].step
              IN IF st[1] = "match"
                 THEN /\ n >= 2
                      /\ tr[n - 1] = ActionOf(st[2], st[4])
                      /\ tr[n] = ActionOf(st[5], st[7])
                      /\ fsm[j].src \in NodesAfter(tr, n - 2)
                 ELSE /\ tr[n] = ActionOf(st[2], st[4])
                      /\ fsm[j].src \in NodesAfter(tr, n - 1)}}

\* C19: the trace of a dangling error is exactly the actions of the steps of a
\* path of the exploration from the initial configuration to the failing
\* configuration, one per Jump or External step and sender's then receiver's
\* per Match step, and it is empty when the failure is at the initial
\* configuration.
C19_TraceIsThePathToTheFailure ==
    result.kind \in DanglingKinds =>
        /\ LocalNodesVec(last.lc) \in NodesAfter(result.trace, Len(result.trace))
        /\ fsm = <<>> => result.trace = <<>>

\* A dangling error at the configuration reached by a Match step.
C19_Witness ==
    /\ result.kind \in DanglingKinds
    /\ Len(result.trace) = 2
    /\ \E k \in DOMAIN fsm : fsm[k].step[1] = "match"

\* Two Vec<NodeIndex> keys holding the same local node ids, each as often.
SameMultiset(n1, n2) ==
    \A v \in LocalNodes :
        Cardinality({k \in DOMAIN n1 : n1[k] = v}) = Cardinality({k \in DOMAIN n2 : n2[k] = v})

\* C21: two local configurations that hold the same multiset of local node
\* ids, differing only in which instance holds which node, are mapped to the
\* same global node: among the global nodes computed so far (the initial
\* node, the sources and the successors of the constructed edges, the nodes
\* of the visited configurations) no two distinct nodes have the same
\* multiset of local node ids.
C21_SameMultisetSameGlobalNode ==
    \A n1 \in FsmNodes \cup {c[1] : c \in visited_global_configs} :
        \A n2 \in FsmNodes \cup {c[1] : c \in visited_global_configs} :
            SameMultiset(n1, n2) => n1 = n2

\* The global configurations of the successors derived at the last dequeued
\* configuration, one per step, in the order of the steps.
SuccessorConfigs ==
    [k \in DOMAIN last.steps |->
        <<RetrieveOrConstructNode(LocalNodesVec(last.succ[k])),
          ModifyEnvironmentByEdge(StepToEdgeInfo(last.steps[k]), last.env)>>]

\* The configurations visited before the last dequeued configuration was
\* processed: those dequeued so far (the initial one first) and those that
\* were waiting in the queue.
VisitedBefore ==
    Range(dequeued) \cup
    {SynthesisStateToConfig(synthesis_queue[k]) :
        k \in 1..(Len(synthesis_queue) - Len(last.enqueued))}

\* The successors, from index k on, that are neither seen nor at the initial
\* global node, each once.
RECURSIVE NewAndNotInitial(_, _, _)
NewAndNotInitial(cfgs, k, seen) ==
    IF k > Len(cfgs) THEN <<>>
    ELSE IF cfgs[k] \notin seen /\ cfgs[k][1] # dequeued[1][1]
         THEN <<cfgs[k]>> \o NewAndNotInitial(cfgs, k + 1, seen \cup {cfgs[k]})
         ELSE NewAndNotInitial(cfgs, k + 1, seen)

\* C22: the successors enqueued at a dequeued configuration are exactly those
\* whose global configuration was not visited and whose global node is not
\* the initial global node; no (node, Environment) pair is dequeued twice,
\* and only the first dequeued configuration is at the initial global node,
\* also when that node is reached again with another environment.
C22_EnqueuedIffNewAndNotInitial ==
    /\ last.valid =>
          [k \in DOMAIN last.enqueued |-> SynthesisStateToConfig(last.enqueued[k])]
             = NewAndNotInitial(SuccessorConfigs, 1, VisitedBefore)
    /\ \A i, j \in DOMAIN dequeued : i # j => dequeued[i] # dequeued[j]
    /\ \A i \in DOMAIN dequeued : i > 1 => dequeued[i][1] # dequeued[1][1]

\* A later configuration has a step back to the initial global node with an
\* environment that was never visited.
C22_Witness ==
    /\ Len(dequeued) >= 2
    /\ \E k \in DOMAIN last.steps :
          /\ SuccessorConfigs[k][1] = dequeued[1][1]
          /\ SuccessorConfigs[k] \notin VisitedBefore
          /\ SuccessorConfigs[k][2] # {}

\* The local steps classified as enabled at the last dequeued configuration.
ClassifiedEnabled ==
    Range(last.local.jumps) \cup Range(last.local.externals)
        \cup Range(last.local.sendings) \cup Range(last.local.receivings)

\* C23: at every dequeued configuration an outgoing local edge is classified
\* as enabled exactly when the environment extended with its guard and then
\* updated by its updates is satisfiable; for an edge with no guard and no
\* update that is the satisfiability of the current environment itself.
C23_EnabledIffExtendedEnvSatisfiable ==
    last.valid =>
       \A e \in {f \in group : f.src = last.lc[f.inst]} :
          LocalStep(e) \in ClassifiedEnabled
             <=> Satisfiable(ExtendedEnv(e.info, last.env), unsolvable) = "sat"

\* C24: a dequeued configuration in which no instance has an outgoing edge is
\* not an error: no step is derived, nothing is enqueued, and the result is
\* not a dangling error.
C24_NoOutgoingEdgeIsNotAnError ==
    (last.valid /\ \A e \in group : e.src # last.lc[e.inst]) =>
        /\ last.steps = <<>>
        /\ last.enqueued = <<>>
        /\ result.kind \notin DanglingKinds

\* A configuration without outgoing edges was dequeued after a step, and the
\* exploration ended with Ok.
C24_Witness ==
    /\ last.valid /\ \A e \in group : e.src # last.lc[e.inst]
    /\ Len(dequeued) >= 2
    /\ result = OkResult

\* C30: the Environment of every enqueued and of every dequeued global
\* configuration is satisfiable, in particular the one a Match step produces
\* from the guards and updates of its sender and its receiver.
C30_EnqueuedEnvironmentsSatisfiable ==
    /\ \A k \in DOMAIN synthesis_queue :
          Satisfiable(synthesis_queue[k].current_env, unsolvable) = "sat"
    /\ \A k \in DOMAIN dequeued : Satisfiable(dequeued[k][2], unsolvable) = "sat"

\* The local edges a step is made of.
LocalEdgesOfStep(step) ==
    IF step[1] = "match" THEN {<<step[2], step[4]>>, <<step[5], step[7]>>}
    ELSE {<<step[2], step[4]>>}

\* C31: every step derived at a dequeued configuration adds one edge to the
\* synthesized FSM and marks its local edges as used, whether or not its
\* successor is enqueued: the last edges of the FSM are those of the steps of
\* the last expanded configuration, used_edges is the set of the local edges
\* underlying the edges of the FSM, and an instance with a used edge is not
\* reported as live-locked.
C31_EveryStepIsAnEdgeAndUsed ==
    /\ (last.valid /\ result.kind \notin DanglingKinds) =>
          /\ Len(fsm) >= Len(last.steps)
          /\ \A k \in DOMAIN last.steps :
                LET e == fsm[Len(fsm) - Len(last.steps) + k]
                IN /\ e.step = last.steps[k]
                   /\ e.src = RetrieveOrConstructNode(LocalNodesVec(last.lc))
                   /\ e.dst = RetrieveOrConstructNode(LocalNodesVec(last.succ[k]))
    /\ used_edges = UNION {LocalEdgesOfStep(fsm[k].step) : k \in DOMAIN fsm}
    /\ result.kind = "LiveLock" =>
          \A e \in EdgesOfInstance(group, result.module) :
             <<result.module, e.id>> \notin used_edges

\* synthesize returned Ok for a group in which an instance has one used edge,
\* whose step leads back to the initial global node, and in which another
\* step led to a visited configuration away from the initial node.
C31_Witness ==
    /\ pc = "done" /\ result = OkResult
    /\ \E k \in DOMAIN fsm :
          /\ fsm[k].dst = initial_node[2]
          /\ fsm[k].step[1] # "match"
          /\ {u \in used_edges : u[1] = fsm[k].step[2]} = {<<fsm[k].step[2], fsm[k].step[4]>>}
    /\ \E j \in DOMAIN fsm :
          /\ fsm[j].dst # initial_node[2]
          /\ fsm[j].src = fsm[j].dst

\* The number of steps a trace records: a Match contributes the sender's and
\* the receiver's action, and an internal receive is recorded by a Match only.
StepsOfTrace(tr) ==
    Len(tr) - Cardinality({k \in DOMAIN tr :
                             /\ tr[k][2].communication # NoComm
                             /\ tr[k][2].communication[1] = "recv"
                             /\ ~tr[k][2].communication[3]})

\* The configurations the steps derived at configuration st lead to, without
\* those at the initial global node, which are not expanded.
ExploredSuccessors(st) ==
    LET gen == GenerateAllPossibleSynthesisSteps(st.lc, st.env, <<>>)
    IN {c \in {[lc |-> NextLocalConfigurations(st.lc, gen.steps[k]),
                env |-> ModifyEnvironmentByEdge(StepToEdgeInfo(gen.steps[k]), st.env)] :
                  k \in DOMAIN gen.steps} :
          c.lc # InitialLocals}

\* The configurations reached from the initial one by n steps.
RECURSIVE ConfigsAtDepth(_)
ConfigsAtDepth(n) ==
    IF n = 0 THEN {[lc |-> InitialLocals, env |-> EmptyEnv]}
    ELSE UNION {ExploredSuccessors(st) : st \in ConfigsAtDepth(n - 1)}

\* A configuration without steps where an internal send or receive is enabled.
IsFailing(st) ==
    LET gen == GenerateAllPossibleSynthesisSteps(st.lc, st.env, <<>>)
    IN /\ gen.steps = <<>>
       /\ gen.local.sendings # <<>> \/ gen.local.receivings # <<>>

\* SpecDepth: the synthesizer on groups of up to MaxDepthEdges edges of A and
\* B: silent, updating and guarded edges of A, sends of A, receives of B.
DepthEdgeUniverse ==
    {e \in EdgeUniverse :
        \/ e.inst = "A" /\ e.info \in {Labels[1], Labels[2], Labels[6], Labels[8]}
        \/ e.inst = "B" /\ e.info \in {Labels[1], Labels[3], Labels[4]}}

InitDepth ==
    /\ group \in SubsetsUpTo(DepthEdgeUniverse, MaxDepthEdges)
    /\ order \in IterationOrders(group)
    /\ unsolvable = {}
    /\ used_edges = {}
    /\ fsm = <<>>
    /\ synthesis_queue = <<SynthesisState(InitialLocals, EmptyEnv, <<>>)>>
    /\ visited_global_configs =
          {SynthesisStateToConfig(SynthesisState(InitialLocals, EmptyEnv, <<>>))}
    /\ initial_node = <<"none">>
    /\ pc = "loop"
    /\ result = NoResult
    /\ last = NoLast
    /\ dequeued = <<>>
    /\ EncIdle
    /\ AnalyzeIdle /\ SubstIdle

SpecDepth == InitDepth /\ [][Next]_vars

\* C32: the dangling error synthesize returns belongs to a failing
\* configuration of minimal depth: the failing configuration is reached by as
\* many steps as its trace records, and no configuration reached from the
\* initial one by fewer steps is without steps while an internal send or
\* receive is enabled there.
C32_DanglingErrorOfMinimalDepth ==
    result.kind \in DanglingKinds =>
        /\ [lc |-> last.lc, env |-> last.env] \in ConfigsAtDepth(StepsOfTrace(result.trace))
        /\ \A n \in 0..(StepsOfTrace(result.trace) - 1) :
              \A st \in ConfigsAtDepth(n) : ~IsFailing(st)

\* A dangling error after one step, in a group where another configuration
\* fails after two steps.
C32_Witness ==
    /\ result.kind \in DanglingKinds
    /\ StepsOfTrace(result.trace) = 1
    /\ \E st \in ConfigsAtDepth(2) : IsFailing(st)

(***************************************************************************)
(* SpecEnc: Environment::satisfiable as a pure function of an environment. *)
(***************************************************************************)
EncAtoms == {True_, False_, Unknown,
             Binary(X, "eq", IntLit(0)), Binary(X, "eq", IntLit(1)),
             Binary(X, "eq", UnknownPrimary)}

\* Atoms, and atoms under one Not, And or Or.
EncExprs == EncAtoms \cup {Not(a) : a \in EncAtoms}
              \cup {And(a, b) : a, b \in EncAtoms}
              \cup {Or(a, b) : a, b \in EncAtoms}

\* The concrete values an Unknown primary may stand for.
PrimaryConcretizations(p) ==
    IF p[1] = "unk" THEN {IntLit(i) : i \in SolverDomain} ELSE {p}

\* The expressions obtained by replacing every Unknown part by a concrete value.
RECURSIVE Concretizations(_)
Concretizations(e) ==
    CASE e[1] = "unknown" -> {True_, False_}
      [] e[1] = "bin" -> {Binary(l, e[3], r) : l \in PrimaryConcretizations(e[2]),
                                               r \in PrimaryConcretizations(e[4])}
      [] e[1] = "not" -> {Not(c) : c \in Concretizations(e[2])}
      [] e[1] = "and" -> {And(c, d) : c \in Concretizations(e[2]),
                                      d \in Concretizations(e[3])}
      [] e[1] = "or" -> {Or(c, d) : c \in Concretizations(e[2]),
                                    d \in Concretizations(e[3])}
      [] OTHER -> {e}

\* Some replacement of the Unknown parts is true under some integer assignment.
FeasibleForSomeConcretization(env) ==
    LET vs == UNION {ExprVars(e) : e \in env}
    IN \E asg \in [vs -> SolverDomain] :
          \A e \in env : \E c \in Concretizations(e) : Holds(c, asg)

InitEnc ==
    /\ encIn \in SubsetsUpTo(EncExprs, MaxEncEnv)
    /\ encOut = "none"
    /\ encOps = <<>>
    /\ encHist = <<>>
    /\ solverStack = NewSolver /\ constraints = {}
    /\ SynthIdle
    /\ AnalyzeIdle /\ SubstIdle

\* One call of Environment::satisfiable on encIn.
EncSatisfiable ==
    /\ encOut = "none"
    /\ \E run \in {SatisfiableOnSolver(encIn, solverStack, unsolvable)} :
          /\ encOut' = run.verdict
          /\ solverStack' = run.stack
          /\ constraints' = IF run.verdict = "unknown" THEN run.constraints
                            ELSE constraints
    /\ UNCHANGED <<encIn, encOps, encHist, synthVars, analyzeVars, substVars, treeVars>>

NextEnc == EncSatisfiable

SpecEnc == InitEnc /\ [][NextEnc]_vars

\* C7: the encoding is sound for pruning: an environment that is true for some
\* replacement of its Unknown parts under some integer assignment is found
\* satisfiable by the solver on its encoding (so the edge is not pruned).
C7_EncodingSoundForPruning ==
    (encOut \in {"sat", "unsat"} /\ FeasibleForSomeConcretization(encIn))
        => encOut = "sat"

(***************************************************************************)
(* SpecEnv: Environment::extend and Environment::update applied in a row   *)
(* to an environment, with Environment::satisfiable called in between.     *)
(***************************************************************************)
Y == Var("y")

EnvAtoms == {Binary(X, "eq", IntLit(0)), Binary(X, "eq", IntLit(1)),
             Binary(X, "eq", Y), Binary(Y, "eq", IntLit(0)),
             Not(Binary(X, "eq", IntLit(0))), Unknown}

\* Updates x := 1, x := y and x := x.
EnvUpdates == {<<"x", IntLit(1)>>, <<"x", Y>>, <<"x", X>>}

InitEnv ==
    /\ encIn \in SubsetsUpTo(EnvAtoms, MaxEncEnv)
    /\ encOut = "none"
    /\ encOps = <<>>
    /\ encHist = <<>>
    /\ solverStack = NewSolver /\ constraints = {}
    /\ SynthIdle
    /\ AnalyzeIdle /\ SubstIdle

\* One call of Environment::extend on the environment just checked.
EnvExtend ==
    /\ encOut \notin {"none", "idle"}
    /\ Len(encOps) < MaxOps
    /\ \E b \in EnvAtoms :
          /\ encIn' = Extend(encIn, b)
          /\ encOps' = Append(encOps, <<"extend", b>>)
    /\ encHist' = Append(encHist, [env |-> encIn, out |-> encOut])
    /\ encOut' = "none"
    /\ UNCHANGED <<solverStack, constraints, synthVars, analyzeVars, substVars, treeVars>>

\* One call of Environment::update on the environment just checked.
EnvUpdate ==
    /\ encOut \notin {"none", "idle"}
    /\ Len(encOps) < MaxOps
    /\ \E u \in EnvUpdates :
          /\ encIn' = Update(encIn, u)
          /\ encOps' = Append(encOps, <<"update", u>>)
    /\ encHist' = Append(encHist, [env |-> encIn, out |-> encOut])
    /\ encOut' = "none"
    /\ UNCHANGED <<solverStack, constraints, synthVars, analyzeVars, substVars, treeVars>>

NextEnv == EncSatisfiable \/ EnvExtend \/ EnvUpdate

SpecEnv == InitEnv /\ [][NextEnv]_vars

\* C11: after e.extend(b) the environment holds every constraint of e, holds b
\* and holds nothing else, and if it is satisfiable then e was satisfiable.
C11_ExtendOnlyAdds ==
    (encOps # <<>> /\ encOps[Len(encOps)][1] = "extend") =>
        LET e == encHist[Len(encHist)]
            b == encOps[Len(encOps)][2]
        IN /\ \A c \in e.env : c \in encIn
           /\ b \in encIn
           /\ \A c \in encIn : c = b \/ c \in e.env
           /\ encOut = "sat" => e.out = "sat"

\* A satisfiable environment extended by a constraint it did not hold, and
\* found satisfiable again.
C11_Witness ==
    /\ encOps # <<>> /\ encOps[Len(encOps)][1] = "extend"
    /\ encOut = "sat"
    /\ encHist[Len(encHist)].env # {}
    /\ encOps[Len(encOps)][2] \notin encHist[Len(encHist)].env

\* C12: after e.update(v := p) the environment holds v = p and no other
\* constraint mentions v; it is unsatisfiable only if e together with v = p is
\* unsatisfiable; and the environment {x = 0}, after update(x := y) and
\* extend(x = 1), is satisfiable.
C12_UpdateRebindsOldConstraints ==
    /\ (encOps # <<>> /\ encOps[Len(encOps)][1] = "update") =>
          LET e == encHist[Len(encHist)]
              u == encOps[Len(encOps)][2]
              new == Binary(Var(u[1]), "eq", u[2])
          IN /\ new \in encIn
             /\ \A c \in encIn \ {new} : Var(u[1]) \notin ExprVars(c)
             /\ encOut = "unsat" => ~Decide({EncodeBoolExpression(c) : c \in e.env \cup {new}})
    /\ (/\ encOps = <<<<"update", <<"x", Y>>>>, <<"extend", Binary(X, "eq", IntLit(1))>>>>
        /\ encHist[1].env = {Binary(X, "eq", IntLit(0))}
        /\ encOut # "none") => encOut = "sat"

\* The environment {x = 0} after update(x := y) and extend(x = 1), checked.
C12_Witness ==
    /\ encOps = <<<<"update", <<"x", Y>>>>, <<"extend", Binary(X, "eq", IntLit(1))>>>>
    /\ encHist[1].env = {Binary(X, "eq", IntLit(0))}
    /\ encOut = "sat"

(***************************************************************************)
(* SpecSolver: Environment::satisfiable on the one solver of analyze, with *)
(* constraints on which the solver answers "unknown".                      *)
(***************************************************************************)
InitSolver ==
    /\ encIn \in SubsetsUpTo(EnvAtoms, MaxEncEnv)
    /\ encOut = "none"
    /\ encOps = <<>>
    /\ encHist = <<>>
    /\ solverStack = NewSolver /\ constraints = {}
    /\ group = {} /\ order = <<>>
    /\ unsolvable \in {{}} \cup {{a} : a \in EnvAtoms}
    /\ synthesis_queue = <<>> /\ visited_global_configs = {}
    /\ used_edges = {} /\ fsm = <<>> /\ pc = "idle"
    /\ initial_node = <<"none">>
    /\ result = NoResult /\ last = NoLast /\ dequeued = <<>>
    /\ AnalyzeIdle /\ SubstIdle

NextSolver == EncSatisfiable \/ EnvExtend \/ EnvUpdate

SpecSolver == InitSolver /\ [][NextSolver]_vars

\* C25: Environment::satisfiable leaves the assertion stack of the solver as
\* it found it whatever the verdict: the one scope it pushed is popped, so
\* the verdict of a check is that of its own environment alone, with nothing
\* left over from the checks before it.
C25_SatisfiableRestoresTheStack ==
    /\ solverStack = NewSolver
    /\ encOut \notin {"none", "idle"} => encOut = Satisfiable(encIn, unsolvable)

\* A check that answered "unknown" after an earlier check of a non-empty
\* environment that the solver decided.
C25_Witness ==
    /\ encOut = "unknown"
    /\ \E k \in DOMAIN encHist : encHist[k].env # {} /\ encHist[k].out \in {"sat", "unsat"}

\* C26: when the solver answers "unknown", the UnsolvableConstraints error
\* carries the assertions of the environment that was checked, one per
\* constraint asserted in that check.
C26_UnknownCarriesTheCheckedConstraints ==
    encOut = "unknown" => constraints = {EncodeBoolExpression(e) : e \in encIn}

(***************************************************************************)
(* analyze (analysis.rs): the driver over the dependency forest.  A tree   *)
(* is the sequence of what synthesize returns for its tasks, in queue      *)
(* order; extraction is what extract_protocol returns.                     *)
(***************************************************************************)
TaskOutcomes == {"Ok", "LiveLock"}

SeqsUpTo(S, n) == UNION {[1..k -> S] : k \in 0..n}

Trees == SeqsUpTo(TaskOutcomes, MaxTasks)

Forests == SeqsUpTo(Trees, MaxTrees)

\* A mutant of AnalyzeDependencyTree: only the last task's result counts.
AnalyzeDependencyTreeLastTask(tree) ==
    IF tree = <<>> THEN "Ok" ELSE tree[Len(tree)]

\* analyze_dependency_tree: the tasks are synthesized in queue order and the
\* first Err is returned; Ok(()) when the queue runs empty.
AnalyzeDependencyTree(tree) ==
    LET failing == {k \in 1..Len(tree) : tree[k] # "Ok"}
    IN IF failing = {} THEN "Ok"
       ELSE tree[CHOOSE k \in failing : \A j \in failing : k <= j]

InitAnalyze ==
    /\ extraction \in {"ok", "err"}
    /\ forest \in IF extraction = "ok" THEN Forests ELSE {<<>>}
    /\ apc = "start"
    /\ nextTree = 0
    /\ error_detected = FALSE
    /\ reported = <<>>
    /\ analyzed = {}
    /\ verifiedPrinted = 0
    /\ SynthIdle
    /\ EncIdle
    /\ SubstIdle

\* analyze, lines 25-36 and 57: extract_protocol and the match on its result.
ExtractProtocol ==
    /\ apc = "start"
    /\ IF extraction = "ok"
       THEN /\ apc' = "trees"
            /\ nextTree' = 1
            /\ UNCHANGED reported
       ELSE /\ apc' = "done"
            /\ reported' = Append(reported, "extraction")
            /\ UNCHANGED nextTree
    /\ UNCHANGED <<forest, extraction, error_detected, analyzed, verifiedPrinted>>
    /\ UNCHANGED <<synthVars, encVars, substVars, treeVars>>

\* analyze, lines 37-52: one iteration of `for tree in dependency_forest`.
AnalyzeTree ==
    /\ apc = "trees"
    /\ nextTree <= Len(forest)
    /\ analyzed' = analyzed \cup {nextTree}
    /\ IF AnalyzeDependencyTree(forest[nextTree]) = "Ok"
       THEN /\ nextTree' = nextTree + 1
            /\ UNCHANGED <<apc, error_detected, reported>>
       ELSE /\ error_detected' = TRUE
            /\ reported' = Append(reported, AnalyzeDependencyTree(forest[nextTree]))
            /\ apc' = "end"
            /\ UNCHANGED nextTree
    /\ UNCHANGED <<forest, extraction, verifiedPrinted>>
    /\ UNCHANGED <<synthVars, encVars, substVars, treeVars>>

\* analyze, lines 53-55: after the loop.
Conclude ==
    /\ \/ apc = "end"
       \/ apc = "trees" /\ nextTree > Len(forest)
    /\ verifiedPrinted' = IF ~error_detected THEN verifiedPrinted + 1 ELSE verifiedPrinted
    /\ apc' = "done"
    /\ UNCHANGED <<forest, extraction, nextTree, error_detected, reported, analyzed>>
    /\ UNCHANGED <<synthVars, encVars, substVars, treeVars>>

NextAnalyze == ExtractProtocol \/ AnalyzeTree \/ Conclude

SpecAnalyze == InitAnalyze /\ [][NextAnalyze]_vars

\* Every task of the tree synthesizes without error.
TreeOk(tree) == \A k \in 1..Len(tree) : tree[k] = "Ok"

\* C9: when analyze_dependency_tree fails for one tree, every later tree of the
\* forest is still analyzed: once analyze has returned after a successful
\* extraction, each tree of the forest has been handed to
\* analyze_dependency_tree.
C9_LaterTreesStillAnalyzed ==
    (apc = "done" /\ extraction = "ok") => analyzed = 1..Len(forest)

\* C10: "verified" is printed at most once; when analyze has returned it has
\* been printed exactly once if and only if extraction succeeded and every tree
\* of the forest is analyzed without error; and if extraction fails or some tree
\* fails it is never printed.
C10_VerifiedIffAllTreesOk ==
    /\ verifiedPrinted <= 1
    /\ apc = "done" =>
         (verifiedPrinted = 1 <=>
            (extraction = "ok" /\ \A t \in 1..Len(forest) : TreeOk(forest[t])))
    /\ (extraction = "err" \/ \E t \in 1..Len(forest) : ~TreeOk(forest[t])) =>
         verifiedPrinted = 0

\* analyze has returned after printing "verified" for a forest of several
\* trees, one of them with several tasks.
C10_Witness ==
    /\ apc = "done"
    /\ verifiedPrinted = 1
    /\ Len(forest) >= 2
    /\ \E t \in 1..Len(forest) : Len(forest[t]) >= 2

(***************************************************************************)
(* instantiate (analysis.rs): channel_substitutions for the instance A of  *)
(* a module M whose protocol is send(p), apply_channel_substitutions_on_fsm*)
(* on its CFSM, and the synthesis of the group of A and a peer B that      *)
(* receives on channel c.                                                  *)
(*   ModuleInfo: [module_name, ports]     Var: [scope, name]               *)
(*   Connect:    [module_instance, index, channel]                         *)
(***************************************************************************)
PortIds == {"p", "q"}

\* The ports of a module carry distinct ids.
PortLists ==
    {ps \in SeqsUpTo(PortIds, MaxPorts) : \A a, b \in DOMAIN ps : a # b => ps[a] # ps[b]}

Connects == [module_instance : {"A", "B"}, index : {0, 1}, channel : {"c", "d"}]

\* A formal port of an instance is wired by at most one Connect.
ConnectLists ==
    {cs \in SeqsUpTo(Connects, MaxConnects) :
        \A a, b \in DOMAIN cs :
           (a # b) => <<cs[a].module_instance, cs[a].index>> # <<cs[b].module_instance, cs[b].index>>}

ModuleM == [module_name |-> "M", ports |-> ports]

\* The channel a communication on the formal port v of its module refers to.
FormalChannel(v) == v.scope \o "." \o v.name

\* A mutant of ChannelSubstitutions: the port at position i is looked up
\* under index i + 1.
ChannelSubstitutionsShifted(instance, info, conns) ==
    LET RECURSIVE Build(_, _)
        Build(i, m) ==
            IF i > Len(info.ports) THEN m
            ELSE LET hits == {k \in DOMAIN conns : /\ conns[k].module_instance = instance
                                                   /\ conns[k].index = i}
                     v == [scope |-> info.module_name, name |-> info.ports[i]]
                 IN IF hits = {} THEN Build(i + 1, m)
                    ELSE Build(i + 1,
                            [w \in DOMAIN m \cup {v} |->
                                IF w = v THEN conns[CHOOSE k \in hits : \A j \in hits : k <= j].channel
                                ELSE m[w]])
    IN Build(1, <<>>)

\* channel_substitutions: ports are enumerated from 0; `find` takes the first
\* Connect of the instance with the index of the port; `insert` overwrites.
ChannelSubstitutions(instance, info, conns) ==
    LET RECURSIVE Build(_, _)
        Build(i, m) ==
            IF i > Len(info.ports) THEN m
            ELSE LET hits == {k \in DOMAIN conns : /\ conns[k].module_instance = instance
                                                   /\ conns[k].index = i - 1}
                     v == [scope |-> info.module_name, name |-> info.ports[i]]
                 IN IF hits = {} THEN Build(i + 1, m)
                    ELSE Build(i + 1,
                            [w \in DOMAIN m \cup {v} |->
                                IF w = v THEN conns[CHOOSE k \in hits : \A j \in hits : k <= j].channel
                                ELSE m[w]])
    IN Build(1, <<>>)

\* EdgeInfo::rebind_channel: the channel of the communication is replaced by
\* what the map binds its formal port to; nothing else changes.
RebindChannel(info, m) ==
    IF info.communication = NoComm THEN info
    ELSE LET vs == {v \in DOMAIN m : FormalChannel(v) = info.communication[2]}
         IN IF vs = {} THEN info
            ELSE [info EXCEPT !.communication[2] = m[CHOOSE v \in vs : TRUE]]

\* apply_channel_substitutions_on_fsm, on the edges of a CFSM.
ApplyChannelSubstitutionsOnFsm(m, edges) ==
    {[e EXCEPT !.info = RebindChannel(e.info, m)] : e \in edges}

\* The CFSM of module M for instance A: one internal send on formal port p.
CfsmOfM ==
    {[inst |-> "A", id |-> 5, src |-> 0, dst |-> 1,
      info |-> EdgeInfo(<<"send", FormalChannel([scope |-> "M", name |-> "p"]), FALSE>>,
                        NoGuard, <<>>)]}

\* The CFSM of the peer B: one internal receive on channel c.
CfsmOfPeer == {LocalEdge("B", 3, 0, 1)}

InitSubst ==
    /\ ports \in PortLists
    /\ connections \in ConnectLists
    /\ subst = <<>>
    /\ group = {}
    /\ order \in {p \in GroupOrders : p[Cardinality(Inst)] = "C"}
    /\ unsolvable = {}
    /\ synthesis_queue = <<>>
    /\ visited_global_configs = {}
    /\ used_edges = {}
    /\ fsm = <<>>
    /\ initial_node = <<"none">>
    /\ pc = "instantiate"
    /\ result = NoResult
    /\ last = NoLast
    /\ dequeued = <<>>
    /\ EncIdle
    /\ AnalyzeIdle /\ TreeIdle

\* analyze_dependency_tree, lines 84-109, for one task: instantiate for A (the
\* CFSM of M specialized by the substitution) and for the peer, and the call
\* of synthesize up to the loop of start_synthesizing_fsm.
Instantiate ==
    /\ pc = "instantiate"
    /\ subst' = ChannelSubstitutions("A", ModuleM, connections)
    /\ group' = ApplyChannelSubstitutionsOnFsm(subst', CfsmOfM) \cup CfsmOfPeer
    /\ synthesis_queue' = <<SynthesisState(InitialLocals, EmptyEnv, <<>>)>>
    /\ visited_global_configs' =
          {SynthesisStateToConfig(SynthesisState(InitialLocals, EmptyEnv, <<>>))}
    /\ pc' = "loop"
    /\ UNCHANGED <<order, unsolvable, used_edges, fsm, initial_node, result, last,
                   dequeued>>
    /\ UNCHANGED <<ports, connections, encVars, analyzeVars, treeVars>>

NextSubst == Instantiate \/ Expand \/ Finish

SpecSubst == InitSubst /\ [][NextSubst]_vars

\* The Connects that wire the port at position i (from 0) of instance A.
ConnectsOfPort(i) ==
    {c \in Range(connections) : c.module_instance = "A" /\ c.index = i}

\* C20: the map of channel_substitutions binds Var{M, port.id} to the channel
\* of the Connect of (instance, i) for every port at position i that has one
\* and has no entry for any other port; and with p the port at position 0 wired
\* by Connect(A, 0, c), the send on p is a send on c after the substitution and
\* synthesis matches it with the receive on c of the peer.
C20_SubstitutionBindsWiredPorts ==
    pc # "instantiate" =>
        /\ \A i \in DOMAIN ports :
              LET v == [scope |-> "M", name |-> ports[i]]
              IN IF ConnectsOfPort(i - 1) # {}
                 THEN v \in DOMAIN subst /\ \E c \in ConnectsOfPort(i - 1) : subst[v] = c.channel
                 ELSE v \notin DOMAIN subst
        /\ \A v \in DOMAIN subst : v.scope = "M" /\ v.name \in Range(ports)
        /\ (ports # <<>> /\ ports[1] = "p"
              /\ \E c \in ConnectsOfPort(0) : c.channel = "c") =>
              /\ \E e \in group : /\ e.inst = "A"
                                  /\ e.info.communication = <<"send", "c", FALSE>>
              /\ pc = "done" =>
                    /\ result = OkResult
                    /\ \E k \in DOMAIN fsm :
                          /\ fsm[k].step[1] = "match"
                          /\ fsm[k].step[2] = "A" /\ fsm[k].step[5] = "B"

\* M has the ports p and q, p wired to c and q to d, and the synthesis of the
\* group has matched the send of A with the receive of B.
C20_Witness ==
    /\ pc = "done"
    /\ ports = <<"p", "q">>
    /\ \E c \in ConnectsOfPort(0) : c.channel = "c"
    /\ \E c \in ConnectsOfPort(1) : c.channel = "d"
    /\ \E k \in DOMAIN fsm : fsm[k].step[1] = "match"

(***************************************************************************)
(* SpecTree: analyze_dependency_tree over one dependency tree, with the    *)
(* memo cfsm_map.  A tree node is <<module_name, children>>; a CFSM is     *)
(* [module, fsm] with fsm a set of edges [src, dst, info].  What           *)
(* synthesize returns for a task is drawn from SynthesizeOutcomes.         *)
(***************************************************************************)
TreeNode(name, children) == <<name, children>>

LeafL == TreeNode("L", <<>>)
SubtreeT == TreeNode("T", <<LeafL>>)

\* The dependency trees analyzed: a root with leaves and non-leaf children,
\* among them a non-leaf module type that occurs twice.
DependencyTrees ==
    {TreeNode("T", <<LeafL>>), TreeNode("R", <<LeafL>>), TreeNode("R", <<SubtreeT>>),
     TreeNode("R", <<SubtreeT, SubtreeT>>), TreeNode("R", <<SubtreeT, LeafL>>),
     TreeNode("R", <<LeafL, SubtreeT>>)}

\* tree.traverse_post_order_ids(root_id): the nodes, children before parents.
RECURSIVE TraversePostOrder(_)
TraversePostOrder(node) ==
    LET RECURSIVE Kids(_)
        Kids(k) == IF k > Len(node[2]) THEN <<>>
                   ELSE TraversePostOrder(node[2][k]) \o Kids(k + 1)
    IN Kids(1) \o <<node>>

\* dependency_tree_to_task_queue: the nodes with children, in post-order.
DependencyTreeToTaskQueue(t) ==
    LET HasChildren(node) == Len(node[2]) > 0
        nodes == SelectSeq(TraversePostOrder(t), HasChildren)
    IN [k \in DOMAIN nodes |-> nodes[k][1]]

\* leaf_map: module_name -> is_leaf; a later node overwrites an earlier one.
LeafMap(t) ==
    LET nodes == TraversePostOrder(t)
        last_of(n) == CHOOSE k \in DOMAIN nodes :
                         /\ nodes[k][1] = n
                         /\ \A j \in DOMAIN nodes : nodes[j][1] = n => j <= k
    IN [n \in {nodes[k][1] : k \in DOMAIN nodes} |-> Len(nodes[last_of(n)][2]) = 0]

InstanceDigits == <<"1", "2">>

\* The instances a module declares: one per child of its node.
InstancesOf(node) ==
    [k \in DOMAIN node[2] |->
        [name |-> node[1] \o InstanceDigits[k], type_name |-> node[2][k][1],
         scope |-> node[1]]]

\* The ModuleInstances of the project of tree t: those of each module, once.
ModuleInstancesOfTree(t) ==
    LET nodes == TraversePostOrder(t)
        first(k) == \A j \in DOMAIN nodes : nodes[j][1] = nodes[k][1] => k <= j
        RECURSIVE Collect(_)
        Collect(k) == IF k > Len(nodes) THEN <<>>
                      ELSE (IF first(k) THEN InstancesOf(nodes[k]) ELSE <<>>)
                              \o Collect(k + 1)
    IN Collect(1)

TreeChannels == {"c", "d"}

\* The lists of Connects of a project: each instance has its port 0 wired to
\* a channel of its scope, or unwired.
ConnectListsOfTree(instances) ==
    LET RECURSIVE Wire(_, _)
        Wire(f, k) ==
            IF k > Len(instances) THEN <<>>
            ELSE (IF f[k] = "none" THEN <<>>
                  ELSE <<[module_instance |-> instances[k].name, index |-> 0,
                          channel |-> f[k], scope |-> instances[k].scope]>>)
                    \o Wire(f, k + 1)
    IN {Wire(f, 1) : f \in [DOMAIN instances -> TreeChannels \cup {"none"}]}

\* type_map[type_name].module: every module has the one port p.
ModuleInfoOf(t) == [module_name |-> t, ports |-> <<"p">>]

\* construct_cfsm_from_module_instance on the protocol of module t: a send
\* on its port p, then a silent step back.
DirectFsm(t) ==
    {[src |-> 0, dst |-> 1,
      info |-> EdgeInfo(<<"send", FormalChannel([scope |-> t, name |-> "p"]), TRUE>>,
                        NoGuard, <<>>)],
     [src |-> 1, dst |-> 0, info |-> EdgeInfo(NoComm, NoGuard, <<>>)]}

\* The FSMs synthesize may return for the group of task t: silent and
\* external edges only.
SynthesizedFsms(t) ==
    {{[src |-> 0, dst |-> 0, info |-> EdgeInfo(NoComm, NoGuard, <<>>)]},
     {[src |-> 0, dst |-> 1,
       info |-> EdgeInfo(<<"send", FormalChannel([scope |-> t, name |-> "p"]), TRUE>>,
                         NoGuard, <<>>)]}}

SynthesizeOutcomes(t) == {<<"Err">>} \cup {<<"Ok", f>> : f \in SynthesizedFsms(t)}

\* retrieve_instance_in_scope
RetrieveInstanceInScope(scope, instances) ==
    LET InScope(i) == i.scope = scope
    IN SelectSeq(instances, InScope)

\* retrieve_connect_in_scope
RetrieveConnectInScope(scope, conns) ==
    LET InScope(c) == c.scope = scope
    IN SelectSeq(conns, InScope)

\* ModuleInstance::group_parent
GroupParent(module_name) ==
    [name |-> "parent", type_name |-> module_name, scope |-> module_name]

\* instantiate, lines 139-151: the CFSM built from the protocol with the
\* channels substituted.
CfsmFromProtocol(t, channel_substitutions) ==
    [module |-> t, fsm |-> ApplyChannelSubstitutionsOnFsm(channel_substitutions, DirectFsm(t))]

\* A mutant of InstantiateCfsm: the memo is used whenever it has the type.
InstantiateCfsmAlwaysMemo(instance, conns, is_leaf, map) ==
    LET channel_substitutions ==
            ChannelSubstitutions(instance.name, ModuleInfoOf(instance.type_name), conns)
        hit == instance.type_name \in DOMAIN map
        base == IF hit THEN map[instance.type_name]
                ELSE CfsmFromProtocol(instance.type_name, channel_substitutions)
        after == IF hit THEN map
                 ELSE [n \in DOMAIN map \cup {instance.type_name} |->
                          IF n = instance.type_name THEN base ELSE map[n]]
    IN [instance |-> instance, is_leaf |-> is_leaf, hit |-> hit,
        channel_substitutions |-> channel_substitutions,
        before |-> map, after |-> after, base |-> base,
        cfsm |-> [module |-> base.module,
                  fsm |-> ApplyChannelSubstitutionsOnFsm(channel_substitutions, base.fsm)]]

\* A mutant of InstantiateCfsm: the specialized CFSM replaces the memoized one.
InstantiateCfsmStoring(instance, conns, is_leaf, map) ==
    LET channel_substitutions ==
            ChannelSubstitutions(instance.name, ModuleInfoOf(instance.type_name), conns)
        hit == ~is_leaf /\ instance.type_name \in DOMAIN map
        base == IF hit THEN map[instance.type_name]
                ELSE CfsmFromProtocol(instance.type_name, channel_substitutions)
        cfsm == [module |-> base.module,
                 fsm |-> ApplyChannelSubstitutionsOnFsm(channel_substitutions, base.fsm)]
        after == [n \in DOMAIN map \cup {instance.type_name} |->
                     IF n = instance.type_name THEN cfsm ELSE map[n]]
    IN [instance |-> instance, is_leaf |-> is_leaf, hit |-> hit,
        channel_substitutions |-> channel_substitutions,
        before |-> map, after |-> after, base |-> base, cfsm |-> cfsm]

\* instantiate: the call on cfsm_map = map; `hit` is the memoized branch,
\* `base` the CFSM the branch yields, `cfsm` the CFSM returned, `after`
\* the cfsm_map the call leaves.
InstantiateCfsm(instance, conns, is_leaf, map) ==
    LET channel_substitutions ==
            ChannelSubstitutions(instance.name, ModuleInfoOf(instance.type_name), conns)
        hit == ~is_leaf /\ instance.type_name \in DOMAIN map
        base == IF hit THEN map[instance.type_name]
                ELSE CfsmFromProtocol(instance.type_name, channel_substitutions)
        after == IF hit THEN map
                 ELSE [n \in DOMAIN map \cup {instance.type_name} |->
                          IF n = instance.type_name THEN base ELSE map[n]]
    IN [instance |-> instance, is_leaf |-> is_leaf, hit |-> hit,
        channel_substitutions |-> channel_substitutions,
        before |-> map, after |-> after, base |-> base,
        cfsm |-> [module |-> base.module,
                  fsm |-> ApplyChannelSubstitutionsOnFsm(channel_substitutions, base.fsm)]]

\* analyze_dependency_tree, lines 84-93: `for sub_module in sub_modules`, from
\* index k on; calls is the list of the calls of instantiate made so far.
RECURSIVE InstantiateSubModules(_, _, _, _, _)
InstantiateSubModules(sub_modules, k, conns, leaf_map, calls) ==
    IF k > Len(sub_modules) THEN calls
    ELSE LET map == IF calls = <<>> THEN cfsm_map ELSE calls[Len(calls)].after
             call == InstantiateCfsm(sub_modules[k], conns,
                                     leaf_map[sub_modules[k].type_name], map)
         IN InstantiateSubModules(sub_modules, k + 1, conns, leaf_map, Append(calls, call))

InitTree ==
    /\ dependency_tree \in DependencyTrees
    /\ module_instances = ModuleInstancesOfTree(dependency_tree)
    /\ connections \in ConnectListsOfTree(module_instances)
    /\ task_queue = DependencyTreeToTaskQueue(dependency_tree)
    /\ cfsm_map = <<>>
    /\ instantiations = <<>>
    /\ synthesized = <<>>
    /\ tree_result = "running"
    /\ ports = <<>> /\ subst = <<>>
    /\ SynthIdle /\ EncIdle /\ AnalyzeIdle

\* analyze_dependency_tree, lines 78-109: one iteration of
\* `while let Some(task) = queue.pop_front()`.
AnalyzeTask ==
    /\ tree_result = "running"
    /\ task_queue # <<>>
    /\ \E task \in {Head(task_queue)} :
       \E calls \in {InstantiateSubModules(
                        RetrieveInstanceInScope(task, module_instances), 1,
                        RetrieveConnectInScope(task, connections),
                        LeafMap(dependency_tree), <<>>)} :
       \E parent_call \in {InstantiateCfsm(
                              GroupParent(task),
                              RetrieveConnectInScope(task, connections), FALSE,
                              IF calls = <<>> THEN cfsm_map ELSE calls[Len(calls)].after)} :
       \E out \in SynthesizeOutcomes(task) :
          /\ instantiations' =
                instantiations
                   \o [k \in DOMAIN calls |->
                         [call |-> calls[k], task |-> Len(synthesized) + 1, parent |-> FALSE]]
                   \o <<[call |-> parent_call, task |-> Len(synthesized) + 1,
                         parent |-> TRUE]>>
          /\ synthesized' = Append(synthesized, [task |-> task, out |-> out])
          /\ IF out[1] = "Ok"
             THEN /\ cfsm_map' = [n \in DOMAIN parent_call.after \cup {task} |->
                                    IF n = task
                                    THEN [module |-> parent_call.after[task].module,
                                          fsm |-> out[2]]
                                    ELSE parent_call.after[n]]
                  /\ task_queue' = Tail(task_queue)
                  /\ UNCHANGED tree_result
             ELSE /\ cfsm_map' = parent_call.after
                  /\ task_queue' = Tail(task_queue)
                  /\ tree_result' = "Err"
    /\ UNCHANGED <<dependency_tree, module_instances, substVars>>
    /\ UNCHANGED <<synthVars, encVars, analyzeVars>>

\* analyze_dependency_tree, line 111: the queue is empty, Ok(()).
TreeDone ==
    /\ tree_result = "running"
    /\ task_queue = <<>>
    /\ tree_result' = "Ok"
    /\ UNCHANGED <<dependency_tree, module_instances, task_queue, cfsm_map,
                   instantiations, synthesized, substVars>>
    /\ UNCHANGED <<synthVars, encVars, analyzeVars>>

NextTree == AnalyzeTask \/ TreeDone

SpecTree == InitTree /\ [][NextTree]_vars

\* C27: instantiate takes the memoized CFSM exactly when the module is not a
\* leaf and its type is in cfsm_map, and builds the CFSM from the protocol
\* otherwise; after synthesize succeeded for a task cfsm_map holds what it
\* returned under the task's module name, and every later instantiation of
\* that type starts from this synthesized CFSM.
C27_MemoizedUnlessLeafOrNew ==
    /\ \A k \in DOMAIN instantiations :
          LET r == instantiations[k].call
              t == r.instance.type_name
          IN /\ r.hit <=> (~r.is_leaf /\ t \in DOMAIN r.before)
             /\ r.hit => r.base = r.before[t]
             /\ ~r.hit => r.base.fsm =
                             ApplyChannelSubstitutionsOnFsm(r.channel_substitutions, DirectFsm(t))
    /\ \A j \in DOMAIN synthesized :
          synthesized[j].out[1] = "Ok" =>
             /\ j = Len(synthesized) => cfsm_map[synthesized[j].task].fsm = synthesized[j].out[2]
             /\ \A k \in DOMAIN instantiations :
                   (/\ instantiations[k].task > j
                    /\ instantiations[k].call.instance.type_name = synthesized[j].task
                    /\ \A i \in (j + 1)..(instantiations[k].task - 1) :
                          synthesized[i].task # synthesized[j].task)
                   => /\ instantiations[k].call.hit
                      /\ instantiations[k].call.base.fsm = synthesized[j].out[2]

\* A submodule of a non-leaf type was instantiated from the memo.
C27_Witness ==
    \E k \in DOMAIN instantiations :
        /\ ~instantiations[k].parent
        /\ instantiations[k].call.hit
        /\ \E j \in DOMAIN synthesized :
              /\ j < instantiations[k].task
              /\ instantiations[k].call.base.fsm = synthesized[j].out[2]

\* C28: for every task, also of a module type that is a non-leaf node of the
\* tree more than once, the parent CFSM put into the group is the one built
\* from the task's own protocol.
C28_ParentIsTheDirectProtocol ==
    \A k \in DOMAIN instantiations :
        instantiations[k].parent =>
           LET r == instantiations[k].call
           IN r.cfsm.fsm = ApplyChannelSubstitutionsOnFsm(
                              r.channel_substitutions, DirectFsm(r.instance.type_name))

\* An edge without the channel of its communication.
WithoutChannel(e) ==
    [src |-> e.src, dst |-> e.dst, guard |-> e.info.guard, updates |-> e.info.updates,
     communication |-> IF e.info.communication = NoComm THEN NoComm
                       ELSE <<e.info.communication[1], e.info.communication[3]>>]

\* C29: on the memoized branch instantiate leaves cfsm_map unchanged and
\* returns a CFSM with the module, nodes, edges, guards and updates of the
\* memoized one, only channels rewritten; substituting the returned FSM once
\* more changes nothing.
C29_SpecializingLeavesTheMemo ==
    \A k \in DOMAIN instantiations :
        LET r == instantiations[k].call
        IN r.hit =>
              /\ r.after = r.before
              /\ r.cfsm.module = r.base.module
              /\ {WithoutChannel(e) : e \in r.cfsm.fsm} = {WithoutChannel(e) : e \in r.base.fsm}
              /\ Cardinality(r.cfsm.fsm) = Cardinality(r.base.fsm)
              /\ ApplyChannelSubstitutionsOnFsm(r.channel_substitutions, r.cfsm.fsm) = r.cfsm.fsm

\* A memoized CFSM was specialized and the substitution rewrote a channel.
C29_Witness ==
    \E k \in DOMAIN instantiations :
        /\ instantiations[k].call.hit
        /\ instantiations[k].call.cfsm.fsm # instantiations[k].call.base.fsm

====
